---- MODULE Spec2Model ----
(***************************************************************************)
(* Permit Manager API (Express + Prisma): the database tables the routes   *)
(* read and write, the auth middleware, and the /packages and /auth route  *)
(* handlers.  A request is served in one step: the middleware chain and    *)
(* the handler with every write it makes.  `db` is the database, `last`    *)
(* the last request with its response, `nreq` the number of requests       *)
(* served so far.  `pending` is a request that has passed its middleware   *)
(* and whose handler has not run yet (the chain awaits the database in     *)
(* between, so other requests can be served there).  `client` is the       *)
(* single-page front end in one browser, `storage` the object storage the  *)
(* presigned URLs point into, and `seeded` a database that the seed        *)
(* script and the CLI's seed commands are run on.                          *)
(*                                                                         *)
(* Texts (titles, notes, search strings) are tuples of one-character       *)
(* strings so that trim() and contains() are computed, not assumed.        *)
(***************************************************************************)
EXTENDS Integers, Sequences, FiniteSets, TLC

VARIABLES db, last, nreq, pending, client, storage, seeded

vars == <<db, last, nreq, pending, client, storage, seeded>>

\* what lies outside the API server and the browser
outside == <<storage, seeded>>

-----------------------------------------------------------------------------
(* Bounds of the model *)

\* requests served in one behaviour
MaxRequests == 2
\* counties seeded (the seed has 67, all with the same template)
NumCounties == 2

-----------------------------------------------------------------------------
(* Values *)

\* an optional value (undefined / null / field not sent, or present)
None == <<>>
Some(v) == <<v>>
NoUser == [id |-> "<none>", role |-> "<none>"]
NoData == [kind |-> "none"]
NoFault == "none"

Roles == {"ADMIN", "USER"}
PackageStatuses == {"DRAFT", "IN_REVIEW", "SUBMITTED", "APPROVED", "REJECTED", "CLOSED"}
PermitTypes == {"RESIDENTIAL", "MOBILE_HOME", "MODULAR_HOME"}
DefaultStatus == "DRAFT"
ChecklistCompletedDefault == FALSE
MaxTitleLen == 255
MaxNoteLen == 1000

\* well-formed UUIDs known to the model; "c1" and "k1" are the seeded rows
UUIDs == {"c1", "cX", "k1", "kX"}

Blank == " "

RECURSIVE TrimLeft(_)
TrimLeft(s) == IF s # <<>> /\ Head(s) = Blank THEN TrimLeft(Tail(s)) ELSE s

RECURSIVE TrimRight(_)
TrimRight(s) ==
  IF s # <<>> /\ s[Len(s)] = Blank THEN TrimRight(SubSeq(s, 1, Len(s) - 1)) ELSE s

\* String.prototype.trim as express-validator's .trim() sanitizer applies it
Trim(s) == TrimRight(TrimLeft(s))

Lower(c) == CASE c = "A" -> "a" [] c = "B" -> "b" [] c = "S" -> "s" [] c = "J" -> "j"
              [] c = "T" -> "t" [] OTHER -> c

LowerAll(s) == [i \in 1..Len(s) |-> Lower(s[i])]

\* Prisma { contains: q, mode: 'insensitive' }
Contains(hay, q) ==
  \E i \in 1..(Len(hay) - Len(q) + 1) :
     LowerAll(SubSeq(hay, i, i + Len(q) - 1)) = LowerAll(q)

-----------------------------------------------------------------------------
(* prisma/seed.js *)

Item(category, label, required, permitType, sort) ==
  [category |-> category, label |-> label, required |-> required,
   permitType |-> permitType, sort |-> sort]

DEFAULT_TEMPLATE_ITEMS == <<
  Item("Application", "Completed permit application form", TRUE, None, 1),
  Item("Application", "Owner/Authorized Agent signature", TRUE, None, 2),
  Item("Site", "Site plan with unit footprint and setbacks", TRUE, None, 3),
  Item("Site", "Address verification / parcel number", TRUE, None, 4),
  Item("Zoning", "Zoning/land use approval or reference", TRUE, None, 5),
  Item("Flood", "Flood zone noted; elevation certificate if required", FALSE, None, 6),
  Item("Wind", "Design wind zone/exposure documented", TRUE, None, 7),
  Item("Fees", "Impact fees paid or deferred documentation", FALSE, None, 8),
  Item("Addressing", "Addressing/911 approval if required", FALSE, None, 9),
  Item("Foundation", "Foundation plan (piers/slab/stem wall)", TRUE, Some("MOBILE_HOME"), 10),
  Item("Anchorage", "Tie-down/anchoring system details", TRUE, Some("MOBILE_HOME"), 11),
  Item("Unit", "Make/Model/Year", TRUE, Some("MOBILE_HOME"), 12),
  Item("Unit", "HUD label and serial/VIN", TRUE, Some("MOBILE_HOME"), 13),
  Item("Installer", "Licensed installer info", TRUE, Some("MOBILE_HOME"), 14),
  Item("Utilities", "Power/water/sewer letters as applicable", FALSE, None, 15),
  Item("Photos", "Site photos / HUD plate photo", FALSE, Some("MOBILE_HOME"), 16),
  Item("Affidavits", "Installation affidavit / setup certification", TRUE, Some("MOBILE_HOME"), 17) >>

\* bcrypt.hash / bcrypt.compare: a hash matches exactly the password it was made from
Hash(pw) == <<"bcrypt", pw>>
Compare(pw, hash) == hash = Hash(pw)

AdminId == "u1"
SeedTitle == <<"S", "a", "m">>           \* 'Sample Mobile Home Installation'
SeedDueDate == 2                          \* now + 30 days

SeedAdmin ==
  [id |-> AdminId, email |-> "admin@example.com",
   passwordHash |-> Hash("admin123"), role |-> "ADMIN"]

SeedTemplates ==
  { [countyId |-> c, label |-> DEFAULT_TEMPLATE_ITEMS[i].label,
     category |-> DEFAULT_TEMPLATE_ITEMS[i].category,
     permitType |-> DEFAULT_TEMPLATE_ITEMS[i].permitType,
     required |-> DEFAULT_TEMPLATE_ITEMS[i].required,
     sort |-> DEFAULT_TEMPLATE_ITEMS[i].sort] :
       c \in 1..NumCounties, i \in 1..Len(DEFAULT_TEMPLATE_ITEMS) }

SeedPackage ==
  [id |-> 1, title |-> SeedTitle, permitType |-> "MOBILE_HOME", status |-> "DRAFT",
   parcelNumber |-> Some(<<"1", "2", "3">>), dueDate |-> Some(SeedDueDate),
   customerId |-> "c1", contractorId |-> "k1", countyId |-> 1,
   createdById |-> AdminId, siteAddressId |-> Some(1)]

\* The seeded tables that no route of routes/auth.js or routes/packages.js
\* writes: Customer, Contractor, County and CountyChecklistTemplateItem
Customers == {[id |-> "c1", name |-> <<"J", "o", "h", "n">>]}
Contractors == {[id |-> "k1", companyName |-> <<"A", "B", "C">>]}
Counties == 1..NumCounties
Templates == SeedTemplates

\* the tables the routes write, after `npm run db:seed` (setup.sh)
SeedDb ==
  [users |-> {SeedAdmin},
   addresses |-> <<[line1 |-> "789 Oak Drive"]>>,
   packages |-> (1 :> SeedPackage),
   nextPackageId |-> 2,
   checklist |-> <<>>,
   logs |-> <<>>,
   documents |-> <<>>]

-----------------------------------------------------------------------------
(* Requests and responses *)

\* what a route answers: the database afterwards, the HTTP status, the JSON
\* error and message fields, the payload, req.user, and whether the route's
\* handler (the last callback of the chain) was entered
Out(d, code, error, message, data, user, ran) ==
  [db |-> d, code |-> code, error |-> error, message |-> message,
   data |-> data, user |-> user, ran |-> ran]

\* a middleware's verdict: next() or a response
Pass(user) ==
  [next |-> TRUE, code |-> 0, error |-> "", message |-> "", user |-> user]
Stop(code, error, message) ==
  [next |-> FALSE, code |-> code, error |-> error, message |-> message, user |-> NoUser]

\* the response a middleware gave instead of calling next()
Halt(d, m, user) == Out(d, m.code, m.error, m.message, NoData, user, FALSE)

UserById(d, id) == {u \in d.users : u.id = id}
UserByEmail(d, email) == {u \in d.users : u.email = email}
PackageExists(d, id) == id \in DOMAIN d.packages

-----------------------------------------------------------------------------
(* src/middleware/auth.js *)

\* authHeader && authHeader.split(' ')[1]; the header is its tuple of words,
\* <<>> when the request carries no Authorization header
BearerToken(hdr) == IF Len(hdr) >= 2 THEN Some(hdr[2]) ELSE None

\* variant: a verification that accepts expired tokens
JwtVerifies_IgnoringExpiry(token) == token.sig = "good"

\* jwt.verify(token, JWT_SECRET): throws on a bad signature or an expired token
JwtVerifies(token) == token.sig = "good" /\ ~token.expired

\* jwt.sign({ userId }, JWT_SECRET, { expiresIn: '24h' })
generateToken(userId) == [userId |-> userId, sig |-> "good", expired |-> FALSE]

SelectUser(u) == [id |-> u.id, email |-> u.email, role |-> u.role]

\* variant: the whole row
WithoutPasswordHash_WholeRow(u) == u

\* const { passwordHash, ...userData } = user
WithoutPasswordHash(u) == [f \in DOMAIN u \ {"passwordHash"} |-> u[f]]

authenticateToken(d, hdr) ==
  LET token == BearerToken(hdr) IN
  IF token = None
    THEN Stop(401, "Access token required", "No authorization token provided")
  ELSE IF ~JwtVerifies(token[1])
    THEN Stop(403, "Invalid token", "Token is invalid or expired")
  ELSE LET found == UserById(d, token[1].userId) IN
       IF found = {}
         THEN Stop(401, "Invalid token", "User not found")
         ELSE Pass(SelectUser(CHOOSE u \in found : TRUE))

\* variant: a guard that lets every role through
requireAdmin_AnyRole(user) == Pass(user)

requireAdmin(user) ==
  IF user.role # "ADMIN"
    THEN Stop(403, "Admin access required",
              "This action requires administrator privileges")
    ELSE Pass(user)

\* variant: a guard that only checks that the package exists
canAccessPackage_AnyUser(d, user, id) ==
  IF ~PackageExists(d, id)
    THEN Stop(404, "Package not found", "Permit package does not exist")
    ELSE Pass(user)

canAccessPackage(d, user, id) ==
  IF ~PackageExists(d, id)
    THEN Stop(404, "Package not found", "Permit package does not exist")
  ELSE IF user.role = "ADMIN" \/ d.packages[id].createdById = user.id
    THEN Pass(user)
    ELSE Stop(403, "Access denied",
              "You do not have permission to access this package")

-----------------------------------------------------------------------------
(* src/routes/auth.js *)

MinPasswordLen == 6

IsEmail(e) ==
  e \in {"admin@example.com", "e2@example.com", "E2@Example.com", "e3@example.com"}

\* express-validator normalizeEmail(): lower-cases the address
normalizeEmail(e) == IF e = "E2@Example.com" THEN "e2@example.com" ELSE e

registerValidation(body) ==
  (IF IsEmail(body.email) THEN {} ELSE {"email"})
  \cup (IF Len(body.password) >= MinPasswordLen THEN {} ELSE {"password"})
  \cup (IF body.role \in Roles THEN {} ELSE {"role"})

NewUserId(d) == "u" \o ToString(Cardinality(d.users) + 1)

\* details: errors.array(), here the names of the fields that failed
ValidationFailed(d, user, details) ==
  Out(d, 400, "Validation failed", "Please check your input",
      [kind |-> "errors", details |-> details], user, TRUE)

\* variant: a handler that does not look the email up before creating
RegisterHandler_NoLookup(d, user, body) ==
  IF registerValidation(body) # {} THEN ValidationFailed(d, user, registerValidation(body))
  ELSE LET newUser == [id |-> NewUserId(d), email |-> normalizeEmail(body.email),
                       passwordHash |-> Hash(body.password), role |-> body.role]
       IN Out([d EXCEPT !.users = @ \cup {newUser}], 201, "",
              "User created successfully",
              [kind |-> "user", user |-> SelectUser(newUser)], user, TRUE)

\* router.post('/register') handler
RegisterHandler(d, user, body) ==
  IF registerValidation(body) # {} THEN ValidationFailed(d, user, registerValidation(body))
  ELSE LET email == normalizeEmail(body.email) IN
    IF UserByEmail(d, email) # {}
      THEN Out(d, 409, "User already exists",
               "A user with this email already exists", NoData, user, TRUE)
      ELSE LET newUser == [id |-> NewUserId(d), email |-> email,
                           passwordHash |-> Hash(body.password), role |-> body.role]
           IN Out([d EXCEPT !.users = @ \cup {newUser}], 201, "",
                  "User created successfully",
                  [kind |-> "user", user |-> SelectUser(newUser)], user, TRUE)

\* router.post('/register', authenticateToken, requireAdmin, registerValidation, ...)
RegisterRoute(d, req) ==
  LET a == authenticateToken(d, req.hdr) IN
  IF ~a.next THEN Halt(d, a, NoUser)
  ELSE LET r == requireAdmin(a.user) IN
    IF ~r.next THEN Halt(d, r, a.user)
    ELSE RegisterHandler(d, a.user, req.body)

\* router.get('/me', authenticateToken, ...)
MeRoute(d, req) ==
  LET a == authenticateToken(d, req.hdr) IN
  IF ~a.next THEN Halt(d, a, NoUser)
  ELSE Out(d, 200, "", "", [kind |-> "user", user |-> WithoutPasswordHash(a.user)],
           a.user, TRUE)

\* loginValidation: the names of the fields that fail
loginValidation(body) ==
  (IF IsEmail(body.email) THEN {} ELSE {"email"})
  \cup (IF Len(body.password) >= MinPasswordLen THEN {} ELSE {"password"})

AuthenticationFailed(d) ==
  Out(d, 401, "Authentication failed", "Invalid email or password", NoData, NoUser, TRUE)

\* variant: a login that tells an unknown email from a wrong password
LoginRoute_TellsUnknownEmail(d, req) ==
  IF loginValidation(req.body) # {}
    THEN ValidationFailed(d, NoUser, loginValidation(req.body))
  ELSE LET found == UserByEmail(d, normalizeEmail(req.body.email)) IN
    IF found = {}
      THEN Out(d, 404, "Authentication failed", "User not found", NoData, NoUser, TRUE)
    ELSE LET u == CHOOSE x \in found : TRUE IN
      IF ~Compare(req.body.password, u.passwordHash) THEN AuthenticationFailed(d)
      ELSE Out(d, 200, "", "",
               [kind |-> "login", user |-> WithoutPasswordHash(u),
                token |-> generateToken(u.id)], NoUser, TRUE)

\* router.post('/login', loginValidation, ...)
LoginRoute(d, req) ==
  IF loginValidation(req.body) # {}
    THEN ValidationFailed(d, NoUser, loginValidation(req.body))
  ELSE LET found == UserByEmail(d, normalizeEmail(req.body.email)) IN
    IF found = {} THEN AuthenticationFailed(d)
    ELSE LET u == CHOOSE x \in found : TRUE IN
      IF ~Compare(req.body.password, u.passwordHash) THEN AuthenticationFailed(d)
      ELSE Out(d, 200, "", "",
               [kind |-> "login", user |-> WithoutPasswordHash(u),
                token |-> generateToken(u.id)], NoUser, TRUE)

\* router.post('/logout', authenticateToken, ...): the token stays valid
LogoutRoute(d, req) ==
  LET a == authenticateToken(d, req.hdr) IN
  IF ~a.next THEN Halt(d, a, NoUser)
  ELSE Out(d, 200, "", "Logged out successfully", NoData, a.user, TRUE)

changePasswordValidation(body) ==
  (IF Len(body.currentPassword) >= MinPasswordLen THEN {} ELSE {"currentPassword"})
  \cup (IF Len(body.newPassword) >= MinPasswordLen THEN {} ELSE {"newPassword"})

\* variant: the new hash is stored without comparing the current password
ChangePasswordHandler_NoCompare(d, user, body) ==
  IF changePasswordValidation(body) # {}
    THEN ValidationFailed(d, user, changePasswordValidation(body))
  ELSE LET u == CHOOSE x \in d.users : x.id = user.id IN
    Out([d EXCEPT !.users =
           (@ \ {u}) \cup {[u EXCEPT !.passwordHash = Hash(body.newPassword)]}],
        200, "", "Password changed successfully", NoData, user, TRUE)

\* router.post('/change-password') handler
ChangePasswordHandler(d, user, body) ==
  IF changePasswordValidation(body) # {}
    THEN ValidationFailed(d, user, changePasswordValidation(body))
  ELSE LET u == CHOOSE x \in d.users : x.id = user.id IN
    IF ~Compare(body.currentPassword, u.passwordHash)
      THEN Out(d, 401, "Invalid password", "Current password is incorrect",
               NoData, user, TRUE)
      ELSE Out([d EXCEPT !.users =
                  (@ \ {u}) \cup {[u EXCEPT !.passwordHash = Hash(body.newPassword)]}],
               200, "", "Password changed successfully", NoData, user, TRUE)

\* router.post('/change-password', authenticateToken, changePasswordValidation, ...)
ChangePasswordRoute(d, req) ==
  LET a == authenticateToken(d, req.hdr) IN
  IF ~a.next THEN Halt(d, a, NoUser)
  ELSE ChangePasswordHandler(d, a.user, req.body)

-----------------------------------------------------------------------------
(* src/routes/packages.js: validation *)

isUUID(x) == x \in UUIDs

\* variant: validators that check the title as sent, not trimmed
packageValidation_NoTrim(body) ==
  (IF Len(body.title) >= 1 /\ Len(body.title) <= MaxTitleLen THEN {} ELSE {"title"})
  \cup (IF body.permitType \in PermitTypes THEN {} ELSE {"permitType"})
  \cup (IF body.countyId >= 1 THEN {} ELSE {"countyId"})
  \cup (IF isUUID(body.customerId) THEN {} ELSE {"customerId"})
  \cup (IF isUUID(body.contractorId) THEN {} ELSE {"contractorId"})

\* packageValidation: the names of the fields that fail (the sanitizers have
\* run: the title checked is the trimmed one)
packageValidation(body) ==
  (IF Len(Trim(body.title)) >= 1 /\ Len(Trim(body.title)) <= MaxTitleLen
     THEN {} ELSE {"title"})
  \cup (IF body.permitType \in PermitTypes THEN {} ELSE {"permitType"})
  \cup (IF body.countyId >= 1 THEN {} ELSE {"countyId"})
  \cup (IF isUUID(body.customerId) THEN {} ELSE {"customerId"})
  \cup (IF isUUID(body.contractorId) THEN {} ELSE {"contractorId"})

\* variant: isIn with the enum of the init migration
statusValidation_MigrationEnum(body) ==
  IF body.status \in {"DRAFT", "SUBMITTED", "COMPLETED"} THEN {} ELSE {"status"}

statusValidation(body) ==
  (IF body.status \in PackageStatuses THEN {} ELSE {"status"})
  \cup (IF body.note = None \/ Len(Trim(body.note[1])) <= MaxNoteLen
          THEN {} ELSE {"note"})

\* body('note').optional().trim(): the note the handler reads
SanitizedNote(note) == IF note = None THEN None ELSE Some(Trim(note[1]))

-----------------------------------------------------------------------------
(* Prisma calls *)

\* variant: no rollback, the writes made before the throw stay
Transaction_NoRollback(d, run) == run.db

\* prisma.$transaction(async (tx) => ...): the callback's writes are kept
\* when it returns and rolled back when it throws.  `run` is the callback's
\* run: whether it threw, and the database with the writes it had made.
Transaction(d, run) == IF run.threw THEN d ELSE run.db

Threw(d) == [threw |-> TRUE, db |-> d]
Wrote(d) == [threw |-> FALSE, db |-> d]

ServerError(d, user, message) ==
  Out(d, 500, "Server error", message, NoData, user, TRUE)

\* variant: a filter that forgets the county
MatchingTemplateFilter_AnyCounty(t, countyId, permitType) ==
  t.permitType = None \/ t.permitType = Some(permitType)

\* tx.countyChecklistTemplateItem.findMany({ where: { countyId,
\*   OR: [{ permitType: null }, { permitType }] } })
MatchingTemplateFilter(t, countyId, permitType) ==
  /\ t.countyId = countyId
  /\ (t.permitType = None \/ t.permitType = Some(permitType))

TemplateItemsFor(countyId, permitType) ==
  {t \in Templates : MatchingTemplateFilter(t, countyId, permitType)}

\* orderBy: { sort: 'asc' }
RECURSIVE SortBySort(_)
SortBySort(items) ==
  IF items = {} THEN <<>>
  ELSE LET first == CHOOSE t \in items : \A o \in items : t.sort <= o.sort
       IN <<first>> \o SortBySort(items \ {first})

\* templateItems.map(item => ({ packageId, label, category, required }))
ChecklistRow(packageId, item) ==
  [packageId |-> packageId, label |-> item.label, category |-> item.category,
   required |-> item.required, completed |-> ChecklistCompletedDefault]

ChecklistRowsFor(packageId, countyId, permitType) ==
  LET items == SortBySort(TemplateItemsFor(countyId, permitType))
  IN [i \in 1..Len(items) |-> ChecklistRow(packageId, items[i])]

ChecklistOf(d, id) == SelectSeq(d.checklist, LAMBDA r : r.packageId = id)
LogsOf(d, id) == SelectSeq(d.logs, LAMBDA r : r.packageId = id)
DocumentsOf(d, id) == SelectSeq(d.documents, LAMBDA r : r.packageId = id)

-----------------------------------------------------------------------------
(* src/routes/packages.js: POST / *)

NewPackageRow(d, user, body, siteAddressId) ==
  [id |-> d.nextPackageId, title |-> Trim(body.title),
   permitType |-> body.permitType, status |-> DefaultStatus,
   parcelNumber |-> None, dueDate |-> body.dueDate,
   customerId |-> body.customerId, contractorId |-> body.contractorId,
   countyId |-> body.countyId, createdById |-> user.id,
   siteAddressId |-> siteAddressId]

\* the callback given to prisma.$transaction in POST /
CreatePackageRun(d, user, body, fault) ==
  IF body.siteAddress # None /\ fault = "address.create" THEN Threw(d)
  ELSE
    LET d1 == IF body.siteAddress # None
                THEN [d EXCEPT !.addresses = Append(@, body.siteAddress[1])]
                ELSE d
        siteAddressId == IF body.siteAddress # None
                           THEN Some(Len(d1.addresses)) ELSE None
    IN IF fault = "permitPackage.create" THEN Threw(d1)
       ELSE
         LET row == NewPackageRow(d, user, body, siteAddressId)
             d2 == [d1 EXCEPT !.packages = (row.id :> row) @@ @,
                              !.nextPackageId = @ + 1]
             rows == ChecklistRowsFor(row.id, body.countyId, body.permitType)
         IN IF Len(rows) > 0 /\ fault = "packageChecklistItem.createMany"
              THEN Threw(d2)
              ELSE Wrote([d2 EXCEPT !.checklist = @ \o rows])

\* variant: a handler that does not look the county up
CreatePackageHandler_NoCountyCheck(d, user, body, fault) ==
  IF packageValidation(body) # {} THEN ValidationFailed(d, user, packageValidation(body))
  ELSE IF \A c \in Customers : c.id # body.customerId
    THEN Out(d, 400, "Invalid customer", "Customer does not exist", NoData, user, TRUE)
  ELSE IF \A c \in Contractors : c.id # body.contractorId
    THEN Out(d, 400, "Invalid contractor", "Contractor does not exist", NoData, user, TRUE)
  ELSE LET run == CreatePackageRun(d, user, body, fault)
           after == Transaction(d, run)
       IN IF run.threw
            THEN ServerError(after, user, "Failed to create package")
            ELSE Out(after, 201, "", "",
                     [kind |-> "package", package |-> after.packages[d.nextPackageId]],
                     user, TRUE)

CreatePackageHandler(d, user, body, fault) ==
  IF packageValidation(body) # {} THEN ValidationFailed(d, user, packageValidation(body))
  ELSE IF \A c \in Customers : c.id # body.customerId
    THEN Out(d, 400, "Invalid customer", "Customer does not exist", NoData, user, TRUE)
  ELSE IF \A c \in Contractors : c.id # body.contractorId
    THEN Out(d, 400, "Invalid contractor", "Contractor does not exist", NoData, user, TRUE)
  ELSE IF body.countyId \notin Counties
    THEN Out(d, 400, "Invalid county", "County does not exist", NoData, user, TRUE)
  ELSE LET run == CreatePackageRun(d, user, body, fault)
           after == Transaction(d, run)
       IN IF run.threw
            THEN ServerError(after, user, "Failed to create package")
            ELSE Out(after, 201, "", "",
                     [kind |-> "package", package |-> after.packages[d.nextPackageId]],
                     user, TRUE)

\* router.post('/', authenticateToken, packageValidation, ...)
CreatePackageRoute(d, req) ==
  LET a == authenticateToken(d, req.hdr) IN
  IF ~a.next THEN Halt(d, a, NoUser)
  ELSE CreatePackageHandler(d, a.user, req.body, req.fault)

-----------------------------------------------------------------------------
(* src/routes/packages.js: GET /:id *)

GetPackageHandler(d, user, id) ==
  IF ~PackageExists(d, id)
    THEN Out(d, 404, "Package not found", "Permit package does not exist",
             NoData, user, TRUE)
    ELSE Out(d, 200, "", "",
             [kind |-> "package", package |-> d.packages[id]], user, TRUE)

\* router.get('/:id', authenticateToken, canAccessPackage, ...)
GetPackageRoute(d, req) ==
  LET a == authenticateToken(d, req.hdr) IN
  IF ~a.next THEN Halt(d, a, NoUser)
  ELSE LET c == canAccessPackage(d, a.user, req.id) IN
    IF ~c.next THEN Halt(d, c, a.user)
    ELSE GetPackageHandler(d, a.user, req.id)

-----------------------------------------------------------------------------
(* src/routes/packages.js: PATCH /:id/status *)

\* variant: a callback that writes no log row when the status stays the same
UpdateStatusRun_LogsChangesOnly(d, user, id, status, note, fault) ==
  IF fault = "permitPackage.update" \/ ~PackageExists(d, id) THEN Threw(d)
  ELSE LET d1 == [d EXCEPT !.packages[id].status = status] IN
    IF fault = "statusLog.create" THEN Threw(d1)
    ELSE IF d.packages[id].status = status THEN Wrote(d1)
    ELSE Wrote([d1 EXCEPT !.logs =
                  Append(@, [packageId |-> id, status |-> status, note |-> note,
                             createdById |-> user.id])])

\* the callback given to prisma.$transaction in PATCH /:id/status
UpdateStatusRun(d, user, id, status, note, fault) ==
  IF fault = "permitPackage.update" \/ ~PackageExists(d, id) THEN Threw(d)
  ELSE LET d1 == [d EXCEPT !.packages[id].status = status] IN
    IF fault = "statusLog.create" THEN Threw(d1)
    ELSE Wrote([d1 EXCEPT !.logs =
                  Append(@, [packageId |-> id, status |-> status, note |-> note,
                             createdById |-> user.id])])

UpdateStatusHandler(d, user, id, body, fault) ==
  IF statusValidation(body) # {} THEN ValidationFailed(d, user, statusValidation(body))
  ELSE LET run == UpdateStatusRun(d, user, id, body.status,
                                  SanitizedNote(body.note), fault)
           after == Transaction(d, run)
       IN IF run.threw
            THEN ServerError(after, user, "Failed to update package status")
            ELSE Out(after, 200, "", "",
                     [kind |-> "package", package |-> after.packages[id]], user, TRUE)

\* router.patch('/:id/status', authenticateToken, canAccessPackage, [...], ...)
UpdateStatusRoute(d, req) ==
  LET a == authenticateToken(d, req.hdr) IN
  IF ~a.next THEN Halt(d, a, NoUser)
  ELSE LET c == canAccessPackage(d, a.user, req.id) IN
    IF ~c.next THEN Halt(d, c, a.user)
    ELSE UpdateStatusHandler(d, a.user, req.id, req.body, req.fault)

-----------------------------------------------------------------------------
(* src/routes/packages.js: DELETE /:id, and the foreign keys onto PermitPackage *)

\* migration.sql: Document_permitPackageId_fkey and StatusLog_permitPackageId_fkey
DocumentOnDelete == "RESTRICT"
StatusLogOnDelete == "RESTRICT"
\* the checklist table is in no migration of src/; the data model says a
\* package's rows go with it
ChecklistOnDelete == "CASCADE"

Unreferenced(rows, id) == SelectSeq(rows, LAMBDA r : r.packageId # id)

\* what the database lets a DELETE of package `id` do to a referencing table
Restricts(rows, onDelete, id) ==
  onDelete = "RESTRICT" /\ \E i \in 1..Len(rows) : rows[i].packageId = id

AfterDelete(rows, onDelete, id) ==
  IF onDelete = "CASCADE" THEN Unreferenced(rows, id) ELSE rows

\* prisma.permitPackage.delete({ where: { id } }): throws when no row has the
\* id, and when a foreign key restricts the delete
DeletePackageRun(d, id, fault) ==
  IF \/ fault = "permitPackage.delete"
     \/ ~PackageExists(d, id)
     \/ Restricts(d.documents, DocumentOnDelete, id)
     \/ Restricts(d.logs, StatusLogOnDelete, id)
     \/ Restricts(d.checklist, ChecklistOnDelete, id)
    THEN Threw(d)
    ELSE Wrote([d EXCEPT
           !.packages = [p \in DOMAIN @ \ {id} |-> @[p]],
           !.documents = AfterDelete(@, DocumentOnDelete, id),
           !.logs = AfterDelete(@, StatusLogOnDelete, id),
           !.checklist = AfterDelete(@, ChecklistOnDelete, id)])

DeletePackageHandler(d, user, id, fault) ==
  LET run == DeletePackageRun(d, id, fault) IN
  IF run.threw
    THEN ServerError(d, user, "Failed to delete package")
    ELSE Out(run.db, 200, "", "Package deleted successfully", NoData, user, TRUE)

\* router.delete('/:id', authenticateToken, canAccessPackage, ...)
DeletePackageRoute(d, req) ==
  LET a == authenticateToken(d, req.hdr) IN
  IF ~a.next THEN Halt(d, a, NoUser)
  ELSE LET c == canAccessPackage(d, a.user, req.id) IN
    IF ~c.next THEN Halt(d, c, a.user)
    ELSE DeletePackageHandler(d, a.user, req.id, req.fault)

-----------------------------------------------------------------------------
(* src/routes/packages.js: PATCH /:id *)

\* the foreign keys and the enum that prisma.permitPackage.update checks
UpdateDataAccepted(body) ==
  /\ \E c \in Customers : c.id = body.customerId
  /\ \E c \in Contractors : c.id = body.contractorId
  /\ body.countyId \in Counties
  /\ (body.status = None \/ body.status[1] \in PackageStatuses)

\* variant: an update that does not delete createdById from updateData
UpdatedRow_WithCreatedById(row, body, siteAddressId) ==
  [row EXCEPT !.title = Trim(body.title),
              !.permitType = body.permitType,
              !.countyId = body.countyId,
              !.customerId = body.customerId,
              !.contractorId = body.contractorId,
              !.dueDate = IF body.dueDate # None THEN body.dueDate ELSE @,
              !.status = IF body.status # None THEN body.status[1] ELSE @,
              !.createdById = IF body.createdById # None THEN body.createdById[1] ELSE @,
              !.siteAddressId = siteAddressId]

\* updateData applied to the row: id, createdById, createdAt and updatedAt
\* were deleted from it, siteAddress was replaced by siteAddressId
UpdatedRow(row, body, siteAddressId) ==
  [row EXCEPT !.title = Trim(body.title),
              !.permitType = body.permitType,
              !.countyId = body.countyId,
              !.customerId = body.customerId,
              !.contractorId = body.contractorId,
              !.dueDate = IF body.dueDate # None THEN body.dueDate ELSE @,
              !.status = IF body.status # None THEN body.status[1] ELSE @,
              !.siteAddressId = siteAddressId]

\* the handler's writes, in order, outside any transaction.  When no row has
\* the id, package.siteAddressId (package is null) or the update throws
\* before anything is written.
UpdatePackageRun(d, id, body, fault) ==
  IF ~PackageExists(d, id) THEN Threw(d) ELSE
  LET hasAddress == d.packages[id].siteAddressId # None
      addressFault == IF hasAddress THEN "address.update" ELSE "address.create"
  IN
  IF body.siteAddress # None /\ fault = addressFault THEN Threw(d)
  ELSE
    LET d1 == IF body.siteAddress = None THEN d
              ELSE IF hasAddress
                THEN [d EXCEPT !.addresses[d.packages[id].siteAddressId[1]] =
                                  body.siteAddress[1]]
                ELSE [d EXCEPT !.addresses = Append(@, body.siteAddress[1])]
        siteAddressId == IF body.siteAddress # None /\ ~hasAddress
                           THEN Some(Len(d1.addresses))
                           ELSE d.packages[id].siteAddressId
    IN IF fault = "permitPackage.update" \/ ~UpdateDataAccepted(body)
         THEN Threw(d1)
         ELSE Wrote([d1 EXCEPT !.packages[id] = UpdatedRow(@, body, siteAddressId)])

UpdatePackageHandler(d, user, id, body, fault) ==
  IF packageValidation(body) # {} THEN ValidationFailed(d, user, packageValidation(body))
  ELSE LET run == UpdatePackageRun(d, id, body, fault) IN
    IF run.threw
      THEN ServerError(run.db, user, "Failed to update package")
      ELSE Out(run.db, 200, "", "",
               [kind |-> "package", package |-> run.db.packages[id]], user, TRUE)

\* router.patch('/:id', authenticateToken, canAccessPackage, packageValidation, ...)
UpdatePackageRoute(d, req) ==
  LET a == authenticateToken(d, req.hdr) IN
  IF ~a.next THEN Halt(d, a, NoUser)
  ELSE LET c == canAccessPackage(d, a.user, req.id) IN
    IF ~c.next THEN Halt(d, c, a.user)
    ELSE UpdatePackageHandler(d, a.user, req.id, req.body, req.fault)

-----------------------------------------------------------------------------
(* src/routes/packages.js: GET / *)

DefaultPage == 1
DefaultLimit == 20
MaxLimit == 100

listValidation(query) ==
  (IF query.page = None \/ query.page[1] >= 1 THEN {} ELSE {"page"})
  \cup (IF query.limit = None \/ (query.limit[1] >= 1 /\ query.limit[1] <= MaxLimit)
          THEN {} ELSE {"limit"})
  \cup (IF query.q = None \/ Len(Trim(query.q[1])) <= MaxTitleLen THEN {} ELSE {"q"})
  \cup (IF query.countyId = None \/ query.countyId[1] >= 1 THEN {} ELSE {"countyId"})

CustomerName(id) == (CHOOSE c \in Customers : c.id = id).name
ContractorCompany(id) == (CHOOSE c \in Contractors : c.id = id).companyName

\* where.OR: title, customer name, contractor company or parcel number contains q
MatchesSearch(row, q) ==
  \/ Contains(row.title, q)
  \/ Contains(CustomerName(row.customerId), q)
  \/ Contains(ContractorCompany(row.contractorId), q)
  \/ (row.parcelNumber # None /\ Contains(row.parcelNumber[1], q))

\* the q, status, countyId and dueBefore conditions of the where clause
MatchesFilters(row, query) ==
  /\ (query.q = None \/ Trim(query.q[1]) = <<>> \/ MatchesSearch(row, Trim(query.q[1])))
  /\ (query.status = None \/ query.status[1] = {} \/ row.status \in query.status[1])
  /\ (query.countyId = None \/ row.countyId = query.countyId[1])
  /\ (query.dueBefore = None
        \/ (row.dueDate # None /\ row.dueDate[1] <= query.dueBefore[1]))

\* variant: a where clause with no createdById condition
AccessFilter_Everyone(user, row) == TRUE

\* if (req.user.role !== 'ADMIN') where.createdById = req.user.id
AccessFilter(user, row) == user.role = "ADMIN" \/ row.createdById = user.id

ListWhere(d, user, query) ==
  {id \in DOMAIN d.packages :
     MatchesFilters(d.packages[id], query) /\ AccessFilter(user, d.packages[id])}

\* orderBy: { createdAt: 'desc' }: ids are handed out in creation order
RECURSIVE NewestFirst(_)
NewestFirst(ids) ==
  IF ids = {} THEN <<>>
  ELSE LET newest == CHOOSE i \in ids : \A j \in ids : j <= i
       IN <<newest>> \o NewestFirst(ids \ {newest})

\* skip and take of findMany
Page(rows, skip, take) ==
  SubSeq(rows, skip + 1, IF skip + take <= Len(rows) THEN skip + take ELSE Len(rows))

ListHandler(d, user, query) ==
  IF listValidation(query) # {}
    THEN Out(d, 400, "Validation failed", "Please check your query parameters",
             NoData, user, TRUE)
  ELSE
    LET page == IF query.page = None THEN DefaultPage ELSE query.page[1]
        limit == IF query.limit = None THEN DefaultLimit ELSE query.limit[1]
        skip == (page - 1) * limit
        where == ListWhere(d, user, query)
        ids == Page(NewestFirst(where), skip, limit)
        total == Cardinality(where)
    IN Out(d, 200, "", "",
           [kind |-> "list", items |-> [i \in 1..Len(ids) |-> d.packages[ids[i]]],
            total |-> total, page |-> page, limit |-> limit,
            totalPages |-> (total + limit - 1) \div limit],
           user, TRUE)

\* router.get('/', authenticateToken, [...], ...)
ListRoute(d, req) ==
  LET a == authenticateToken(d, req.hdr) IN
  IF ~a.next THEN Halt(d, a, NoUser)
  ELSE ListHandler(d, a.user, req.body)

-----------------------------------------------------------------------------
(* The server *)

Request(route, hdr, id, body, fault) ==
  [route |-> route, hdr |-> hdr, id |-> id, body |-> body, fault |-> fault]

\* app.use('/api/auth', authRoutes); app.use('/api/packages', packageRoutes)
\* routes/documents.js is not among the sources; its two routes are taken
\* from the client's calls and the Document table: POST /documents/presign
\* answers an authenticated caller with a URL for the key, POST /documents
\* inserts the Document row it is sent (its package must exist)
PresignRoute(d, req) ==
  LET a == authenticateToken(d, req.hdr) IN
  IF ~a.next THEN Halt(d, a, NoUser)
  ELSE Out(d, 200, "", "", [kind |-> "presign", url |-> req.body.key], a.user, TRUE)

CreateDocumentRoute(d, req) ==
  LET a == authenticateToken(d, req.hdr) IN
  IF ~a.next THEN Halt(d, a, NoUser)
  ELSE IF ~PackageExists(d, req.body.packageId)
    THEN ServerError(d, a.user, "Failed to create document")
  ELSE Out([d EXCEPT !.documents =
              Append(@, [packageId |-> req.body.packageId,
                         objectKey |-> req.body.objectKey,
                         uploadedById |-> a.user.id])],
           201, "", "", NoData, a.user, TRUE)

Handle(d, req) ==
  CASE req.route = "GET /auth/me" -> MeRoute(d, req)
    [] req.route = "POST /auth/login" -> LoginRoute(d, req)
    [] req.route = "POST /auth/logout" -> LogoutRoute(d, req)
    [] req.route = "POST /auth/change-password" -> ChangePasswordRoute(d, req)
    [] req.route = "POST /auth/register" -> RegisterRoute(d, req)
    [] req.route = "POST /documents/presign" -> PresignRoute(d, req)
    [] req.route = "POST /documents" -> CreateDocumentRoute(d, req)
    [] req.route = "GET /packages" -> ListRoute(d, req)
    [] req.route = "GET /packages/:id" -> GetPackageRoute(d, req)
    [] req.route = "POST /packages" -> CreatePackageRoute(d, req)
    [] req.route = "PATCH /packages/:id" -> UpdatePackageRoute(d, req)
    [] req.route = "PATCH /packages/:id/status" -> UpdateStatusRoute(d, req)
    [] req.route = "DELETE /packages/:id" -> DeletePackageRoute(d, req)

Response(o) ==
  [code |-> o.code, error |-> o.error, message |-> o.message, data |-> o.data,
   user |-> o.user, ran |-> o.ran]

Serve(req) ==
  /\ nreq < MaxRequests
  /\ LET o == Handle(db, req) IN
       /\ db' = o.db
       /\ last' = [req |-> req, res |-> Response(o)]
  /\ nreq' = nreq + 1
  /\ UNCHANGED <<pending, client, outside>>

-----------------------------------------------------------------------------
(* The requests clients send *)

GhostUserId == "u0"        \* an id no User row has

Bearer(token) == <<"Bearer", token>>

\* every Authorization header: none, 'Bearer' with no token, and a token of
\* any user id, well or badly signed, fresh or expired
AllHeaders(d) ==
  {<<>>, <<"Bearer">>}
  \cup {Bearer([userId |-> u, sig |-> g, expired |-> e]) :
          u \in {x.id : x \in d.users} \cup {GhostUserId},
          g \in {"good", "bad"}, e \in BOOLEAN}

\* the headers of signed-in clients: a token POST /auth/login issued to a user
LoginHeaders(d) == {Bearer(generateToken(u.id)) : u \in d.users}

\* package ids a client may name: every id handed out so far and the next one
PackageIds(d) == 1..d.nextPackageId

NoCounty == NumCounties + 1      \* a county id with no row

Address(line1) == [line1 |-> line1]

Body(title, permitType, countyId, customerId, contractorId, siteAddress, dueDate, status, createdById) ==
  [title |-> title, permitType |-> permitType, countyId |-> countyId,
   customerId |-> customerId, contractorId |-> contractorId,
   siteAddress |-> siteAddress, dueDate |-> dueDate, status |-> status,
   createdById |-> createdById]

GoodBody == Body(<<"T">>, "RESIDENTIAL", 1, "c1", "k1", None, None, None, None)

\* bodies POST /packages is sent
CreateBodies ==
  { GoodBody,
    [GoodBody EXCEPT !.permitType = "MOBILE_HOME", !.countyId = NumCounties,
                     !.siteAddress = Some(Address("12 Elm St"))] }
  \cup { [GoodBody EXCEPT !.title = <<" ">>],
         [GoodBody EXCEPT !.permitType = "BOGUS"],
         [GoodBody EXCEPT !.customerId = "cX"],
         [GoodBody EXCEPT !.contractorId = "kX"],
         [GoodBody EXCEPT !.countyId = NoCounty],
         [GoodBody EXCEPT !.customerId = "cX", !.countyId = NoCounty] }

CreateFaults ==
  {NoFault, "address.create", "permitPackage.create", "packageChecklistItem.createMany"}

\* bodies PATCH /packages/:id is sent
UpdateBodies ==
  { [GoodBody EXCEPT !.siteAddress = Some(Address("34 Pine Rd"))],
    [GoodBody EXCEPT !.status = Some("CLOSED"), !.createdById = Some("u2")],
    [GoodBody EXCEPT !.siteAddress = Some(Address("34 Pine Rd")), !.countyId = NoCounty],
    [GoodBody EXCEPT !.title = <<" ">>] }

UpdateFaults == {NoFault, "permitPackage.update"}

StatusBody(status, note) == [status |-> status, note |-> note]

\* bodies PATCH /packages/:id/status is sent
StatusBodies ==
  { StatusBody("SUBMITTED", None),
    StatusBody("IN_REVIEW", Some(<<" ", "o", "k", " ">>)),
    StatusBody("BOGUS", None) }

\* ... with every status of the enum
AnyStatusBodies == {StatusBody(s, None) : s \in PackageStatuses}

StatusFaults == {NoFault, "permitPackage.update", "statusLog.create"}

DeleteFaults == {NoFault, "permitPackage.delete"}

RegisterBody(email, password, role) ==
  [email |-> email, password |-> password, role |-> role]

RegisterBodies ==
  {RegisterBody("E2@Example.com", "secret1", r) : r \in Roles}
  \cup {RegisterBody("admin@example.com", "secret1", "USER"),
        RegisterBody("e2@example.com", "short", "USER")}

Credentials(email, password) == [email |-> email, password |-> password]

\* bodies POST /auth/login is sent: the admin's and the second user's
\* credentials, a wrong password, an unknown email, and two invalid bodies
LoginBodies ==
  { Credentials("admin@example.com", "admin123"),
    Credentials("admin@example.com", "admin124"),
    Credentials("E2@Example.com", "secret1"),
    Credentials("e3@example.com", "admin123"),
    Credentials("not-an-email", "admin123"),
    Credentials("admin@example.com", "short") }

Passwords(currentPassword, newPassword) ==
  [currentPassword |-> currentPassword, newPassword |-> newPassword]

\* bodies POST /auth/change-password is sent
ChangePasswordBodies ==
  { Passwords("admin123", "secret1"),
    Passwords("secret1", "admin123"),
    Passwords("admin123", "short") }

Query(page, limit, q, status, countyId, dueBefore) ==
  [page |-> page, limit |-> limit, q |-> q, status |-> status,
   countyId |-> countyId, dueBefore |-> dueBefore]

NoQuery == Query(None, None, None, None, None, None)

Queries ==
  { NoQuery,
    [NoQuery EXCEPT !.q = Some(<<"s", "a">>), !.status = Some({"DRAFT"})],
    [NoQuery EXCEPT !.countyId = Some(1), !.dueBefore = Some(SeedDueDate)],
    [NoQuery EXCEPT !.page = Some(2), !.limit = Some(1)],
    [NoQuery EXCEPT !.limit = Some(MaxLimit + 1)] }

-----------------------------------------------------------------------------
(* Actions: one per route *)

Me ==
  \E hdr \in AllHeaders(db) :
    Serve(Request("GET /auth/me", hdr, 0, NoData, NoFault))

Register ==
  \E hdr \in LoginHeaders(db), body \in RegisterBodies :
    Serve(Request("POST /auth/register", hdr, 0, body, NoFault))

ListPackages ==
  \E hdr \in LoginHeaders(db), query \in Queries :
    Serve(Request("GET /packages", hdr, 0, query, NoFault))

GetPackage ==
  \E hdr \in LoginHeaders(db), id \in PackageIds(db) :
    Serve(Request("GET /packages/:id", hdr, id, NoData, NoFault))

CreatePackage ==
  \E hdr \in LoginHeaders(db), body \in CreateBodies, fault \in CreateFaults :
    /\ fault # NoFault => body.siteAddress # None
    /\ Serve(Request("POST /packages", hdr, 0, body, fault))

UpdatePackage ==
  \E hdr \in LoginHeaders(db), id \in PackageIds(db), body \in UpdateBodies,
     fault \in UpdateFaults :
    /\ fault # NoFault => body.siteAddress # None /\ body.countyId # NoCounty
    /\ Serve(Request("PATCH /packages/:id", hdr, id, body, fault))

UpdateStatusWith(bodies) ==
  \E hdr \in LoginHeaders(db), id \in PackageIds(db), body \in bodies,
     fault \in StatusFaults :
    /\ fault # NoFault => body = StatusBody("SUBMITTED", None)
    /\ Serve(Request("PATCH /packages/:id/status", hdr, id, body, fault))

UpdateStatus == UpdateStatusWith(StatusBodies)
UpdateStatusAny == UpdateStatusWith(AnyStatusBodies)

DeletePackage ==
  \E hdr \in LoginHeaders(db), id \in PackageIds(db), fault \in DeleteFaults :
    Serve(Request("DELETE /packages/:id", hdr, id, NoData, fault))

\* the client's request interceptor adds the stored token, if there is one
Login ==
  \E hdr \in {<<>>} \cup LoginHeaders(db), body \in LoginBodies :
    Serve(Request("POST /auth/login", hdr, 0, body, NoFault))

Logout ==
  \E hdr \in AllHeaders(db) :
    Serve(Request("POST /auth/logout", hdr, 0, NoData, NoFault))

ChangePassword ==
  \E hdr \in LoginHeaders(db), body \in ChangePasswordBodies :
    Serve(Request("POST /auth/change-password", hdr, 0, body, NoFault))

NoRequest == Request("none", <<>>, 0, NoData, NoFault)

\* ---------------------------------------------------------------------
\* The single-page front end: App (src/src/App.tsx and the version of it in
\* unnamed/part_000), the axios interceptors of lib/api.ts and LoginPage.

\* the two versions of App in the repository
Builds == {"src/src/App.tsx", "src/unnamed/part_000"}

\* a path is the tuple of its segments; "/" is the empty tuple
Paths ==
  {<<>>, <<"login">>, <<"dashboard">>, <<"packages", "create">>,
   <<"packages", "1">>, <<"admin">>, <<"admin", "counties">>, <<"nowhere">>}

Element(name) == [kind |-> "page", name |-> name, to |-> <<>>]
Navigate(to) == [kind |-> "navigate", name |-> "Navigate", to |-> to]
LoadingSpinner == Element("LoadingSpinner")
BackendUnavailable == Element("Backend Server Unavailable")

Route(path, element) == [path |-> path, element |-> element]

UnauthenticatedRoutes ==
  {Route(<<"login">>, Element("LoginPage")),
   Route(<<"*">>, Navigate(<<"login">>))}

CommonRoutes ==
  {Route(<<>>, Navigate(<<"dashboard">>)),
   Route(<<"dashboard">>, Element("DashboardPage")),
   Route(<<"packages">>, Element("PackagesPage")),
   Route(<<"packages", "create">>, Element("CreatePackagePage")),
   Route(<<"packages", ":id">>, Element("PackageDetailPage")),
   Route(<<"customers">>, Element("CustomersPage")),
   Route(<<"customers", "create">>, Element("CreateCustomerPage")),
   Route(<<"customers", ":id">>, Element("CustomerDetailPage")),
   Route(<<"contractors">>, Element("ContractorsPage")),
   Route(<<"contractors", "create">>, Element("CreateContractorPage")),
   Route(<<"contractors", ":id">>, Element("ContractorDetailPage")),
   Route(<<"*">>, Navigate(<<"dashboard">>))}

AdminRoutes ==
  {Route(<<"admin">>, Element("AdminPage")),
   Route(<<"admin", "counties">>, Element("CountiesPage"))}

\* variant: the admin routes whatever the role
AuthenticatedRoutes_AnyRole(role) == CommonRoutes \cup AdminRoutes

\* user.data.role === 'ADMIN' && the admin routes
AuthenticatedRoutes(role) ==
  CommonRoutes \cup (IF role = "ADMIN" THEN AdminRoutes ELSE {})

\* <Routes>: a pattern matches a path segment by segment, ":id" matching any
\* segment and "*" any path; of the matching routes the one with the most
\* literal segments is rendered, the "*" route last
Matches(pattern, path) ==
  \/ pattern = <<"*">>
  \/ /\ Len(pattern) = Len(path)
     /\ \A i \in 1..Len(path) : pattern[i] = ":id" \/ pattern[i] = path[i]

Score(pattern) ==
  IF pattern = <<"*">> THEN 0 - 1
  ELSE Cardinality({i \in 1..Len(pattern) : pattern[i] # ":id"})

Routes(routes, path) ==
  LET matching == {r \in routes : Matches(r.path, path)}
      best == CHOOSE r \in matching :
                \A s \in matching : Score(s.path) <= Score(r.path)
  IN best.element

\* import.meta.env.DEV && !import.meta.env.VITE_API_URL: the build that talks
\* to no backend; the client modelled here talks to the backend
isDevMode == FALSE

\* what App renders for the state of the ['user'] query and the path
App(build, status, data, path) ==
  IF status = "loading" THEN LoadingSpinner
  ELSE IF build = "src/unnamed/part_000" /\ status = "error" /\ ~isDevMode
    THEN BackendUnavailable
  ELSE IF data = None THEN Routes(UnauthenticatedRoutes, path)
  ELSE Routes(AuthenticatedRoutes(data[1].role), path)

\* the browser: the build it loaded, localStorage's auth_token and user, the path, the
\* ['user'] query, whether window.location.href = '/login' is under way, the
\* api call that settled in the last step, the uploadDocument under way (the
\* step it is at and its object key) and Date.now()
Client(build, token, user, path, status, data, href) ==
  [build |-> build, token |-> token, user |-> user, path |-> path,
   status |-> status, data |-> data, href |-> href, call |-> None,
   upload |-> None, clock |-> 0]

ClosedClient == Client("closed", None, None, <<>>, "loading", None, FALSE)

\* an api call that settled: the HTTP status of its response, NoResponse for a
\* network error; it resolves on a 2xx status and rejects otherwise
NoResponse == 0
Settled(api, code) == Some([api |-> api, status |-> code])
Resolved(call) == call[1].status \in 200..299

Rendered(c) == App(c.build, c.status, c.data, c.path)

\* tokens localStorage may hold from earlier sessions: none, or one signed by
\* the backend or not, expired or not, of a user that exists or not
StoredTokens(d) ==
  {None} \cup {Some(hdr[2]) : hdr \in {h \in AllHeaders(d) : Len(h) = 2}}

\* localStorage's user, stored by the login that stored the token
StoredUser(d, token) ==
  IF token = None THEN None
  ELSE IF UserById(d, token[1].userId) = {}
    THEN Some([id |-> token[1].userId, email |-> "gone@example.com", role |-> "USER"])
  ELSE Some(SelectUser(CHOOSE u \in UserById(d, token[1].userId) : TRUE))

\* request interceptor: Authorization: Bearer <auth_token>, if there is one
RequestInterceptor(token) == IF token = None THEN <<>> ELSE Bearer(token[1])

\* variant: a 401 removes auth_token but leaves user
ResponseInterceptor_KeepsUser(c, code) ==
  IF code = 401 THEN [c EXCEPT !.token = None, !.href = TRUE] ELSE c

\* response interceptor: a 401 removes auth_token and user and sets
\* window.location.href = '/login'; every error is passed on
ResponseInterceptor(c, code) ==
  IF code = 401
    THEN [c EXCEPT !.token = None, !.user = None, !.href = TRUE]
    ELSE c

\* the app is opened in a browser, at some path
Open ==
  /\ client.build = "closed"
  /\ \E build \in Builds, token \in StoredTokens(db), path \in Paths :
       client' = Client(build, token, StoredUser(db, token), path, "loading",
                        None, FALSE)
  /\ UNCHANGED <<db, last, nreq, pending, outside>>

\* the ['user'] query settles: api.getCurrentUser(), retry: false
getCurrentUser ==
  /\ client.build \in Builds
  /\ client.status = "loading"
  /\ LET o == Handle(db, Request("GET /auth/me", RequestInterceptor(client.token),
                                  0, NoData, NoFault))
     IN /\ db' = o.db
        /\ client' =
             IF o.code = 200
               THEN [client EXCEPT !.status = "success", !.data = Some(o.data.user),
                                   !.call = Settled("getCurrentUser", o.code)]
               ELSE [ResponseInterceptor(client, o.code) EXCEPT
                       !.status = "error", !.data = None,
                       !.call = Settled("getCurrentUser", o.code)]
  /\ UNCHANGED <<last, nreq, pending, outside>>

\* window.location.href = '/login' takes effect: the page is loaded anew
LocationLogin ==
  /\ client.build \in Builds
  /\ client.href
  /\ client' = [client EXCEPT !.path = <<"login">>, !.status = "loading",
                              !.data = None, !.href = FALSE, !.call = None,
                              !.upload = None]
  /\ UNCHANGED <<db, last, nreq, pending, outside>>

\* 'Retry Connection': window.location.reload()
RetryConnection ==
  /\ client.build \in Builds
  /\ Rendered(client) = BackendUnavailable
  /\ client' = [client EXCEPT !.status = "loading", !.data = None,
                              !.href = FALSE, !.call = None, !.upload = None]
  /\ UNCHANGED <<db, last, nreq, pending, outside>>

\* <Navigate to=... replace />
FollowNavigate ==
  /\ client.build \in Builds
  /\ Rendered(client).kind = "navigate"
  /\ client' = [client EXCEPT !.path = Rendered(client).to, !.call = None]
  /\ UNCHANGED <<db, last, nreq, pending, outside>>

\* zod's loginSchema: an email, and a password of at least one character
loginSchema(body) == IsEmail(body.email) /\ Len(body.password) >= 1

\* LoginPage's form is submitted: api.login, then onSuccess or onError
onSubmit ==
  /\ client.build \in Builds
  /\ Rendered(client) = Element("LoginPage")
  /\ \E body \in {b \in LoginBodies : loginSchema(b)} :
       LET o == Handle(db, Request("POST /auth/login", RequestInterceptor(client.token),
                                    0, body, NoFault))
       IN /\ db' = o.db
          /\ client' =
               IF o.code = 200
                 THEN [client EXCEPT !.token = Some(o.data.token),
                                     !.user = Some(o.data.user),
                                     !.status = "success",
                                     !.data = Some(o.data.user),
                                     !.path = <<"dashboard">>,
                                     !.call = Settled("login", o.code)]
                 ELSE [ResponseInterceptor(client, o.code) EXCEPT
                         !.call = Settled("login", o.code)]
  /\ UNCHANGED <<last, nreq, pending, outside>>

\* whether a request gets a response, or fails with none (a network error)
Networks == {"up", "down"}

\* api.logout(): await POST /auth/logout, then remove auth_token and user
logout ==
  /\ client.build \in Builds
  /\ client.status # "loading"
  /\ \E net \in Networks :
       LET o == Handle(db, Request("POST /auth/logout", RequestInterceptor(client.token),
                                    0, NoData, NoFault))
           code == IF net = "down" THEN NoResponse ELSE o.code
       IN /\ db' = o.db
          /\ client' =
               IF code = 200
                 THEN [client EXCEPT !.token = None, !.user = None,
                                     !.call = Settled("logout", code)]
                 ELSE [ResponseInterceptor(client, code) EXCEPT
                         !.call = Settled("logout", code)]
  /\ UNCHANGED <<last, nreq, pending, outside>>

\* uploads started in one behaviour
MaxUploads == 2

\* useParams().id of /packages/:id
PackageParam(path) == IF path = <<"packages", "1">> THEN 1 ELSE 0

\* what the storage answers to the PUT on a presigned URL: the object is
\* stored (200), the PUT is refused (403, say an expired URL), or no answer
StorageAnswers == {200, 403, NoResponse}

\* variant: uploadDocument throws unless the PUT's response is ok
PutResolves_IfOk(answer) == answer \in 200..299

\* await fetch(url, { method: 'PUT' ... }) resolves on every response,
\* whatever its status, and rejects on a network error only
PutResolves(answer) == answer # NoResponse

\* api.uploadDocument(id, file, type, tag): the key is made and
\* POST /documents/presign is awaited
uploadDocument ==
  /\ client.build \in Builds
  /\ Rendered(client) = Element("PackageDetailPage")
  /\ client.upload = None
  /\ client.clock < MaxUploads
  /\ \E net \in Networks :
       LET key == <<PackageParam(client.path), client.clock>>
           o == Handle(db, Request("POST /documents/presign",
                                   RequestInterceptor(client.token), 0,
                                   [kind |-> "presign", key |-> key, op |-> "put"],
                                   NoFault))
           code == IF net = "down" THEN NoResponse ELSE o.code
       IN /\ db' = o.db
          /\ client' =
               IF code = 200
                 THEN [client EXCEPT !.upload = Some([pc |-> "put", key |-> o.data.url]),
                                     !.clock = @ + 1, !.call = None]
                 ELSE [ResponseInterceptor(client, code) EXCEPT
                         !.clock = @ + 1,
                         !.call = Settled("uploadDocument", code)]
  /\ UNCHANGED <<last, nreq, pending, outside>>

\* the file is PUT to the presigned URL
fetchPut ==
  /\ client.upload # None
  /\ client.upload[1].pc = "put"
  /\ \E answer \in StorageAnswers :
       /\ storage' = IF answer = 200 THEN storage \cup {client.upload[1].key}
                     ELSE storage
       /\ client' =
            IF PutResolves(answer)
              THEN [client EXCEPT !.upload[1].pc = "record"]
              ELSE [client EXCEPT !.upload = None,
                                  !.call = Settled("uploadDocument", NoResponse)]
  /\ UNCHANGED <<db, last, nreq, pending, seeded>>

\* the Document record is created: POST /documents
createDocument ==
  /\ client.upload # None
  /\ client.upload[1].pc = "record"
  /\ \E net \in Networks :
       LET o == Handle(db, Request("POST /documents",
                                   RequestInterceptor(client.token), 0,
                                   [kind |-> "document",
                                    packageId |-> PackageParam(client.path),
                                    objectKey |-> client.upload[1].key],
                                   NoFault))
           code == IF net = "down" THEN NoResponse ELSE o.code
       IN /\ db' = IF net = "down" THEN db ELSE o.db
          /\ client' =
               [(IF code = 201 THEN client ELSE ResponseInterceptor(client, code))
                  EXCEPT !.upload = None,
                         !.call = Settled("uploadDocument", code)]
  /\ UNCHANGED <<last, nreq, pending, outside>>

\* ---------------------------------------------------------------------
\* Seeding: main of prisma/seed.js (`npm run db:seed`) and the commands
\* seed and seed-users of cli.js, run on a database that starts empty.
\* A table is the sequence of its rows; the id of a row is its position.

\* runs of prisma/seed.js in one behaviour
MaxSeedRuns == 2

FLORIDA_COUNTIES == <<
  "Alachua", "Baker", "Bay", "Bradford", "Brevard", "Broward", "Calhoun", "Charlotte", "Citrus", "Clay",
  "Collier", "Columbia", "DeSoto", "Dixie", "Duval", "Escambia", "Flagler", "Franklin", "Gadsden", "Gilchrist",
  "Glades", "Gulf", "Hamilton", "Hardee", "Hendry", "Hernando", "Highlands", "Hillsborough", "Holmes", "Indian River",
  "Jackson", "Jefferson", "Lafayette", "Lake", "Lee", "Leon", "Levy", "Liberty", "Madison", "Manatee",
  "Marion", "Martin", "Miami-Dade", "Monroe", "Nassau", "Okaloosa", "Okeechobee", "Orange", "Osceola", "Palm Beach",
  "Pasco", "Pinellas", "Polk", "Putnam", "Santa Rosa", "Sarasota", "Seminole", "St. Johns", "St. Lucie", "Sumter",
  "Suwannee", "Taylor", "Union", "Volusia", "Wakulla", "Walton", "Washington" >>

EmptyTables ==
  [users |-> <<>>, counties |-> <<>>, templates |-> <<>>, customers |-> <<>>,
   contractors |-> <<>>, packages |-> <<>>, subcontractors |-> <<>>]

\* pc: the statement of main that runs next, 0 when the script is not
\* running; runs: the runs started; completed: the runs that reached the end
EmptyDatabase == [tables |-> EmptyTables, pc |-> 0, runs |-> 0, completed |-> 0]

\* the rows that agree with row on the fields of the where clause
Found(rows, where, row) ==
  {i \in DOMAIN rows : \A f \in where : rows[i][f] = row[f]}

\* prisma.x.upsert({ where, update: {}, create }): the table afterwards
Upsert(rows, where, row) ==
  IF Found(rows, where, row) # {} THEN rows ELSE Append(rows, row)

\* cli.js: findFirst({ where }), and create if there is none
CreateIfMissing(rows, where, row) ==
  IF Found(rows, where, row) # {} THEN rows ELSE Append(rows, row)

\* the id of the row an upsert returns
IdOf(rows, where, row) == CHOOSE i \in Found(rows, where, row) : TRUE

TemplateRow(countyId, i) ==
  [countyId |-> countyId, label |-> DEFAULT_TEMPLATE_ITEMS[i].label,
   sort |-> DEFAULT_TEMPLATE_ITEMS[i].sort]

\* for (const item of DEFAULT_TEMPLATE_ITEMS) upsert by countyId_label
RECURSIVE UpsertItems(_, _, _)
UpsertItems(rows, countyId, i) ==
  IF i > Len(DEFAULT_TEMPLATE_ITEMS) THEN rows
  ELSE UpsertItems(Upsert(rows, {"countyId", "label"}, TemplateRow(countyId, i)),
                   countyId, i + 1)

SampleCustomer == [email |-> "john.doe@example.com", name |-> "John Doe"]
SampleContractor == [companyName |-> "ABC Construction Co.", email |-> "jane@abcconstruction.com"]
SampleTitle == "Sample Mobile Home Installation"
SampleSubcontractor == "Electrical Solutions Inc."

\* the statements of main, in order: the admin user, one county with its
\* template items per turn of the loop, the sample customer, contractor,
\* package and subcontractor
LastStatement == NumCounties + 5

Statement(t, pc) ==
  IF pc = 1 THEN
    [t EXCEPT !.users = Upsert(@, {"email"}, [email |-> "admin@example.com",
                                               passwordHash |-> Hash("admin123"),
                                               role |-> "ADMIN"])]
  ELSE IF pc <= NumCounties + 1 THEN
    LET county == [name |-> FLORIDA_COUNTIES[pc - 1]]
        counties == Upsert(t.counties, {"name"}, county)
    IN [t EXCEPT !.counties = counties,
                 !.templates = UpsertItems(@, IdOf(counties, {"name"}, county), 1)]
  ELSE IF pc = NumCounties + 2 THEN
    [t EXCEPT !.customers = Upsert(@, {"email"}, SampleCustomer)]
  ELSE IF pc = NumCounties + 3 THEN
    [t EXCEPT !.contractors = Upsert(@, {"companyName"}, SampleContractor)]
  ELSE IF pc = NumCounties + 4 THEN
    [t EXCEPT !.packages =
       Upsert(@, {"title"},
              [title |-> SampleTitle,
               customerId |-> IdOf(t.customers, {"email"}, SampleCustomer),
               contractorId |-> IdOf(t.contractors, {"companyName"}, SampleContractor),
               countyId |-> 1,
               createdById |-> IdOf(t.users, {"email"}, [email |-> "admin@example.com"])])]
  ELSE
    [t EXCEPT !.subcontractors =
       Append(@, [packageId |-> IdOf(t.packages, {"title"}, [title |-> SampleTitle]),
                  companyName |-> SampleSubcontractor])]

\* `npm run db:seed` is started
SeedStarts ==
  /\ seeded.pc = 0
  /\ seeded.runs < MaxSeedRuns
  /\ seeded' = [seeded EXCEPT !.pc = 1, !.runs = @ + 1]
  /\ UNCHANGED <<db, last, nreq, pending, client, storage>>

\* the next statement of main runs
SeedStatement ==
  /\ seeded.pc > 0
  /\ seeded' = [seeded EXCEPT
                  !.tables = Statement(@, seeded.pc),
                  !.pc = IF seeded.pc = LastStatement THEN 0 ELSE @ + 1,
                  !.completed = IF seeded.pc = LastStatement THEN @ + 1 ELSE @]
  /\ UNCHANGED <<db, last, nreq, pending, client, storage>>

\* a statement throws (the database is gone): main().catch, process.exit(1)
SeedFails ==
  /\ seeded.pc > 0
  /\ seeded' = [seeded EXCEPT !.pc = 0]
  /\ UNCHANGED <<db, last, nreq, pending, client, storage>>

\* cli.js seed
CliSeed ==
  /\ seeded' = [seeded EXCEPT
       !.tables.customers =
          CreateIfMissing(@, {"email"}, [email |-> "customer@example.com",
                                         name |-> "Test Customer"]),
       !.tables.contractors =
          CreateIfMissing(@, {"email"}, [companyName |-> "Test Contractor",
                                         email |-> "contractor@example.com"])]
  /\ seeded' # seeded
  /\ UNCHANGED <<db, last, nreq, pending, client, storage>>

\* cli.js seed-users
CliSeedUsers ==
  /\ seeded' = [seeded EXCEPT
       !.tables.users =
          CreateIfMissing(@, {"email"}, [email |-> "admin@example.com",
                                         passwordHash |-> Hash("password"),
                                         role |-> "ADMIN"])]
  /\ seeded' # seeded
  /\ UNCHANGED <<db, last, nreq, pending, client, storage>>

Init ==
  /\ db = SeedDb
  /\ last = [req |-> NoRequest,
             res |-> [code |-> 0, error |-> "", message |-> "", data |-> NoData,
                      user |-> NoUser, ran |-> FALSE]]
  /\ nreq = 0
  /\ pending = None
  /\ client = ClosedClient
  /\ storage = {}
  /\ seeded = EmptyDatabase

Next ==
  \/ Me
  \/ Register
  \/ ListPackages
  \/ GetPackage
  \/ CreatePackage
  \/ UpdatePackage
  \/ UpdateStatus
  \/ DeletePackage

Spec == Init /\ [][Next]_vars

\* users, their packages and the status workflow: every status of the enum
\* is requested
NextStatus ==
  \/ Register
  \/ CreatePackage
  \/ UpdateStatusAny
  \/ DeletePackage

SpecStatus == Init /\ [][NextStatus]_vars

\* the routes of /api/auth
NextAuth ==
  \/ Login
  \/ Logout
  \/ Me
  \/ Register
  \/ ChangePassword

SpecAuth == Init /\ [][NextAuth]_vars

-----------------------------------------------------------------------------
(* Properties.  Each one is stated for every request of a family that a      *)
(* client can send in the current state: the route is applied to the         *)
(* database as it is and the answer is compared with the claim.              *)

\* the signed-in user a login header belongs to
Caller(d, hdr) == CHOOSE u \in d.users : u.id = hdr[2].userId

GuardedRoutes ==
  {"GET /packages/:id", "PATCH /packages/:id", "PATCH /packages/:id/status",
   "DELETE /packages/:id"}

\* the requests to the routes that canAccessPackage guards, for package `id`
GuardedRequests(d, id) ==
  {Request("GET /packages/:id", hdr, id, NoData, NoFault) : hdr \in LoginHeaders(d)}
  \cup {Request("PATCH /packages/:id", hdr, id, body, fault) :
          hdr \in LoginHeaders(d), body \in UpdateBodies, fault \in UpdateFaults}
  \cup {Request("PATCH /packages/:id/status", hdr, id, body, fault) :
          hdr \in LoginHeaders(d), body \in StatusBodies, fault \in StatusFaults}
  \cup {Request("DELETE /packages/:id", hdr, id, NoData, fault) :
          hdr \in LoginHeaders(d), fault \in DeleteFaults}

\* C1: on every route guarded by canAccessPackage, an authenticated user who
\* is neither ADMIN nor the package's creator is answered 403, the handler is
\* not entered, no package data is returned and nothing is changed; an ADMIN
\* and the creator reach the handler.
C1_OnlyAdminOrCreatorReachesHandler ==
  \A id \in DOMAIN db.packages : \A req \in GuardedRequests(db, id) :
    LET o == Handle(db, req)
        caller == Caller(db, req.hdr)
    IN IF caller.role # "ADMIN" /\ caller.id # db.packages[id].createdById
         THEN o.code = 403 /\ ~o.ran /\ o.data = NoData /\ o.db = db
         ELSE o.ran

\* a USER was refused another user's package
C1_Witness ==
  /\ last.req.route \in GuardedRoutes
  /\ last.res.code = 403
  /\ last.res.error = "Access denied"
  /\ last.res.user.role = "USER"
  /\ db.packages[last.req.id].createdById # last.res.user.id

\* bodies of POST /packages that pass packageValidation
WellFormedBodies ==
  { [GoodBody EXCEPT !.title = <<" ", "T", " ">>, !.permitType = t, !.countyId = c,
                     !.customerId = cu, !.contractorId = co,
                     !.siteAddress = Some(Address("12 Elm St"))] :
      t \in PermitTypes, c \in 1..NoCounty,
      cu \in {"c1", "cX"}, co \in {"k1", "kX"} }

MissingReferences(body) ==
  (IF body.customerId \in {c.id : c \in Customers} THEN {} ELSE {"Invalid customer"})
  \cup (IF body.contractorId \in {c.id : c \in Contractors} THEN {} ELSE {"Invalid contractor"})
  \cup (IF body.countyId \in Counties THEN {} ELSE {"Invalid county"})

\* C2: POST /packages with a well-formed body whose customerId, contractorId
\* or countyId refers to no row is answered 400 with the error naming a
\* missing reference, and creates no package, address or checklist item.
C2_MissingReferenceIs400 ==
  \A hdr \in LoginHeaders(db), body \in WellFormedBodies :
    MissingReferences(body) # {} =>
      LET o == Handle(db, Request("POST /packages", hdr, 0, body, NoFault))
      IN /\ o.code = 400
         /\ o.error \in MissingReferences(body)
         /\ o.db.packages = db.packages
         /\ o.db.addresses = db.addresses
         /\ o.db.checklist = db.checklist

\* a POST naming a customer and a county that do not exist was refused
C2_Witness ==
  /\ last.req.route = "POST /packages"
  /\ last.req.body.customerId = "cX"
  /\ last.req.body.countyId = NoCounty
  /\ last.res.code = 400
  /\ last.res.error = "Invalid customer"

\* bodies of POST /packages that name rows that exist
AcceptedBodies ==
  {body \in WellFormedBodies : MissingReferences(body) = {}}

\* a checklist row carries a template item's label, category and required flag
CopyOf(row, t) ==
  row.label = t.label /\ row.category = t.category /\ row.required = t.required

CreatedTogether(before, after, body) ==
  LET id == before.nextPackageId IN
  /\ id \in DOMAIN after.packages
  /\ ChecklistOf(after, id) # <<>>
  /\ Len(after.checklist) = Len(before.checklist) + Len(ChecklistOf(after, id))
  /\ IF body.siteAddress = None
       THEN after.addresses = before.addresses /\ after.packages[id].siteAddressId = None
       ELSE /\ after.addresses = Append(before.addresses, body.siteAddress[1])
            /\ after.packages[id].siteAddressId = Some(Len(after.addresses))

AuthorisedHeaders(d, id) ==
  {hdr \in LoginHeaders(d) :
     Caller(d, hdr).role = "ADMIN" \/ Caller(d, hdr).id = d.packages[id].createdById}

PaddedNote == <<" ", "o", "k", " ">>

\* status updates with every status of the enum, with and without a note,
\* the ones whose first or second write fails, and one that is not valid
StatusRequests(d, id) ==
  {Request("PATCH /packages/:id/status", hdr, id, StatusBody(st, note), NoFault) :
     hdr \in AuthorisedHeaders(d, id), st \in PackageStatuses,
     note \in {None, Some(PaddedNote)}}
  \cup {Request("PATCH /packages/:id/status", hdr, id,
                StatusBody("APPROVED", Some(PaddedNote)), fault) :
          hdr \in AuthorisedHeaders(d, id), fault \in StatusFaults}
  \cup {Request("PATCH /packages/:id/status", hdr, id, StatusBody("BOGUS", None), NoFault) :
          hdr \in AuthorisedHeaders(d, id)}

\* a successful status update of package p was the last request served
StatusUpdated(l, p) ==
  /\ l.req.route = "PATCH /packages/:id/status"
  /\ l.req.id = p
  /\ l.res.code = 200

\* C5: PATCH /packages/:id/status is atomic.  A call answered 200 has set the
\* status to the requested one and appended exactly one StatusLog row with
\* that status, the (trimmed) note and the caller's id; any other call leaves
\* the database as it was.  Hence a package's log grows by one row with each
\* successful status update on it and by none otherwise.
C5_StatusAndLogTogether ==
  /\ [](\A id \in DOMAIN db.packages : \A req \in StatusRequests(db, id) :
          LET o == Handle(db, req) IN
          IF o.code = 200
            THEN /\ o.db.packages[id].status = req.body.status
                 /\ o.db.logs =
                      Append(db.logs,
                             [packageId |-> id, status |-> req.body.status,
                              note |-> IF req.body.note = None THEN None
                                       ELSE Some(Trim(req.body.note[1])),
                              createdById |-> Caller(db, req.hdr).id])
                 /\ o.db = [db EXCEPT !.packages[id].status = req.body.status,
                                      !.logs = o.db.logs]
            ELSE o.db = db)
  /\ [][\A p \in DOMAIN db.packages \cap DOMAIN db'.packages :
          Len(LogsOf(db', p)) =
            Len(LogsOf(db, p)) + (IF StatusUpdated(last', p) THEN 1 ELSE 0)]_vars

\* a status update with a note succeeded: the package has the status and its
\* only log row has the status, the trimmed note and the caller
C5_Witness ==
  /\ StatusUpdated(last, last.req.id)
  /\ last.req.body.note = Some(PaddedNote)
  /\ db.packages[last.req.id].status = "IN_REVIEW"
  /\ LogsOf(db, last.req.id) =
       <<[packageId |-> last.req.id, status |-> "IN_REVIEW",
          note |-> Some(<<"o", "k">>), createdById |-> last.res.user.id]>>

\* C6: status transitions are unconstrained.  Whatever the status of a
\* package, a status update by an authorised caller to any of the six statuses
\* (its current one included) is answered 200 and leaves the package in the
\* requested status; a value outside the six is answered 400 and changes
\* neither the status nor the log.
C6_AnyStatusToAnyStatus ==
  \A id \in DOMAIN db.packages : \A hdr \in AuthorisedHeaders(db, id) :
    /\ \A st \in PackageStatuses :
         LET o == Handle(db, Request("PATCH /packages/:id/status", hdr, id,
                                     StatusBody(st, None), NoFault))
         IN o.code = 200 /\ o.db.packages[id].status = st
    /\ \A st \in {"BOGUS", "COMPLETED", ""} :
         LET o == Handle(db, Request("PATCH /packages/:id/status", hdr, id,
                                     StatusBody(st, None), NoFault))
         IN /\ o.code = 400
            /\ o.db.packages[id].status = db.packages[id].status
            /\ o.db.logs = db.logs

\* a CLOSED package was put back to DRAFT
C6_Witness ==
  /\ StatusUpdated(last, last.req.id)
  /\ Len(LogsOf(db, last.req.id)) = 2
  /\ LogsOf(db, last.req.id)[1].status = "CLOSED"
  /\ LogsOf(db, last.req.id)[2].status = "DRAFT"
  /\ db.packages[last.req.id].status = "DRAFT"

\* C7: DELETE /packages/:id by an authorised caller on an existing package
\* succeeds and removes the package with every checklist item, document and
\* status log that refers to it, also when the package has status logs.
C7_DeleteCascades ==
  ( /\ last.req.route = "DELETE /packages/:id"
    /\ last.req.fault = NoFault
    /\ last.res.ran )
  => /\ last.res.code = 200
     /\ last.req.id \notin DOMAIN db.packages
     /\ ChecklistOf(db, last.req.id) = <<>>
     /\ DocumentsOf(db, last.req.id) = <<>>
     /\ LogsOf(db, last.req.id) = <<>>

\* a package with a status log was deleted by its creator and is still there
C7_Witness ==
  /\ last.req.route = "DELETE /packages/:id"
  /\ last.req.fault = NoFault
  /\ last.res.ran
  /\ last.res.code = 500
  /\ last.req.id \in DOMAIN db.packages
  /\ LogsOf(db, last.req.id) # <<>>

\* one request to each route, carrying header `hdr`
RequestsWith(hdr) ==
  { Request("GET /auth/me", hdr, 0, NoData, NoFault),
    Request("POST /auth/register", hdr, 0,
            RegisterBody("e3@example.com", "secret1", "USER"), NoFault),
    Request("GET /packages", hdr, 0, NoQuery, NoFault),
    Request("GET /packages/:id", hdr, SeedPackage.id, NoData, NoFault),
    Request("POST /packages", hdr, 0, GoodBody, NoFault),
    Request("PATCH /packages/:id", hdr, SeedPackage.id, GoodBody, NoFault),
    Request("PATCH /packages/:id/status", hdr, SeedPackage.id,
            StatusBody("SUBMITTED", None), NoFault),
    Request("DELETE /packages/:id", hdr, SeedPackage.id, NoData, NoFault) }

\* C8: on every route, a request without a bearer token is answered 401, one
\* whose token has a bad signature or is expired 403, one whose valid token
\* names no user row 401, and in these cases the handler does not run and
\* nothing is written; a handler runs only for a valid token of an existing
\* user, and req.user is then that user's row (id, email, role) as it is in
\* the database.
C8_AuthenticateToken ==
  \A hdr \in AllHeaders(db) : \A req \in RequestsWith(hdr) :
    LET o == Handle(db, req)
        refused == ~o.ran /\ o.db = db /\ o.data = NoData
    IN IF Len(hdr) < 2
         THEN o.code = 401 /\ o.error = "Access token required" /\ refused
       ELSE IF hdr[2].sig # "good" \/ hdr[2].expired
         THEN o.code = 403 /\ o.error = "Invalid token" /\ refused
       ELSE IF \A u \in db.users : u.id # hdr[2].userId
         THEN o.code = 401 /\ o.message = "User not found" /\ refused
       ELSE /\ \E u \in db.users :
                 o.user = [id |-> hdr[2].userId, email |-> u.email, role |-> u.role]
                 /\ u.id = hdr[2].userId
            /\ req.route \in {"GET /auth/me", "GET /packages", "POST /packages"}
                 => o.ran
            /\ req.route = "GET /auth/me" => o.code = 200 /\ o.data.user = o.user

\* a well-signed, unexpired token of a user with no row was answered 401
C8_Witness ==
  /\ last.req.route = "GET /auth/me"
  /\ Len(last.req.hdr) = 2
  /\ last.req.hdr[2].sig = "good" /\ ~last.req.hdr[2].expired
  /\ last.req.hdr[2].userId = GhostUserId
  /\ last.res.code = 401
  /\ ~last.res.ran

\* queries of GET /packages: every combination of a q, status, countyId and
\* dueBefore filter, on the first page
FilterQueries ==
  { Query(None, lim, q, st, c, due) :
      lim \in {None, Some(1)},
      q \in {None, Some(<<" ", "t">>)},
      st \in {None, Some({"DRAFT", "IN_REVIEW"})},
      c \in {None, Some(1)},
      due \in {None, Some(SeedDueDate)} }

\* C9: GET /packages returns to a non-ADMIN caller only packages the caller
\* created, whatever filters are supplied, and its total is the number of the
\* caller's own packages that match; for an ADMIN the total is the number of
\* matching packages of all creators.
C9_ListShowsOwnPackagesOnly ==
  \A hdr \in LoginHeaders(db), query \in FilterQueries :
    LET o == Handle(db, Request("GET /packages", hdr, 0, query, NoFault))
        caller == Caller(db, hdr)
        matching == {id \in DOMAIN db.packages : MatchesFilters(db.packages[id], query)}
        own == {id \in matching : db.packages[id].createdById = caller.id}
        shown == {o.data.items[i].id : i \in 1..Len(o.data.items)}
    IN /\ o.code = 200
       /\ o.db = db
       /\ IF caller.role = "ADMIN"
            THEN o.data.total = Cardinality(matching) /\ shown \subseteq matching
            ELSE o.data.total = Cardinality(own) /\ shown \subseteq own
       /\ query.limit = None => Cardinality(shown) = o.data.total

\* a USER listed the packages and was shown none of the admin's
C9_Witness ==
  /\ last.req.route = "GET /packages"
  /\ last.req.body = NoQuery
  /\ last.res.code = 200
  /\ last.res.user.role = "USER"
  /\ last.res.data.total = 0
  /\ last.res.data.items = <<>>
  /\ \E id \in DOMAIN db.packages : db.packages[id].createdById # last.res.user.id

\* bodies of POST /auth/register, valid and not
AnyRegisterBodies ==
  { RegisterBody(e, pw, r) :
      e \in {"e3@example.com", "admin@example.com", "not-an-email"},
      pw \in {"secret1", "short"},
      r \in Roles \cup {"ROOT"} }

\* C10: POST /auth/register by a signed-in caller whose role is not ADMIN is
\* answered 403 and creates no user, whatever the body.
C10_OnlyAdminRegisters ==
  \A hdr \in LoginHeaders(db), body \in AnyRegisterBodies :
    Caller(db, hdr).role # "ADMIN" =>
      LET o == Handle(db, Request("POST /auth/register", hdr, 0, body, NoFault))
      IN /\ o.code = 403
         /\ o.error = "Admin access required"
         /\ ~o.ran
         /\ o.db.users = db.users
         /\ o.db = db

\* a USER asked for an ADMIN account and was refused
C10_Witness ==
  /\ last.req.route = "POST /auth/register"
  /\ last.res.user.role = "USER"
  /\ last.req.body.role = "ADMIN"
  /\ registerValidation(last.req.body) = {}
  /\ last.res.code = 403
  /\ Cardinality(db.users) = 2

\* a title one character longer than the validator allows
LongTitle == [i \in 1..(MaxTitleLen + 1) |-> "x"]

\* bodies of POST /packages that break one validation rule each, alone and
\* together with a reference to a row that does not exist
InvalidBodies ==
  LET base == {[GoodBody EXCEPT !.siteAddress = Some(Address("12 Elm St"))],
               [GoodBody EXCEPT !.customerId = "cX", !.countyId = NoCounty]}
  IN UNION { { [b EXCEPT !.title = <<>>],
               [b EXCEPT !.title = <<" ", " ">>],
               [b EXCEPT !.title = LongTitle],
               [b EXCEPT !.permitType = "COMMERCIAL"],
               [b EXCEPT !.countyId = 0],
               [b EXCEPT !.customerId = "42"],
               [b EXCEPT !.contractorId = "not-a-uuid"] } : b \in base }

\* the one rule each of those bodies breaks
BrokenRule(body) ==
  IF body.countyId = 0 THEN "countyId"
  ELSE IF body.permitType = "COMMERCIAL" THEN "permitType"
  ELSE IF body.customerId = "42" THEN "customerId"
  ELSE IF body.contractorId = "not-a-uuid" THEN "contractorId"
  ELSE "title"

\* C12: a POST /packages whose body fails validation (empty, blank or
\* over-long title, unknown permit type, countyId below 1, customerId or
\* contractorId that is no UUID) is answered 400 'Validation failed' naming the
\* failing field, whether or not the rows it refers to exist and whether or
\* not a write would have failed, and every table is left as it was.
C12_InvalidBodyIs400 ==
  \A hdr \in LoginHeaders(db), body \in InvalidBodies,
     fault \in {NoFault, "address.create"} :
    LET o == Handle(db, Request("POST /packages", hdr, 0, body, fault))
    IN /\ o.code = 400
       /\ o.error = "Validation failed"
       /\ o.data.details = {BrokenRule(body)}
       /\ o.db = db

\* a POST with a blank title was refused and nothing was written
C12_Witness ==
  /\ last.req.route = "POST /packages"
  /\ last.req.body.title = <<" ">>
  /\ last.res.code = 400
  /\ last.res.error = "Validation failed"
  /\ last.res.data.details = {"title"}
  /\ db = SeedDb

\* the newest StatusLog row of a package that has one
NewestLog(d, p) == LogsOf(d, p)[Len(LogsOf(d, p))]

\* C13: in every reachable state the status of a package that has StatusLog
\* rows is the status of its newest row: no operation changes a status
\* without logging it.
C13_StatusIsNewestLog ==
  \A p \in DOMAIN db.packages :
    LogsOf(db, p) # <<>> => db.packages[p].status = NewestLog(db, p).status

\* PATCH /packages/:id with a status in its body closed a package whose
\* newest log row still says otherwise, and wrote no log row
C13_Witness ==
  /\ last.req.route = "PATCH /packages/:id"
  /\ last.req.body.status = Some("CLOSED")
  /\ last.res.code = 200
  /\ db.packages[last.req.id].status = "CLOSED"
  /\ Len(LogsOf(db, last.req.id)) = 1
  /\ NewestLog(db, last.req.id).status # "CLOSED"

\* the createdById values a body may carry: none, and the id of every user
\* and of a user that does not exist
OwnerFields(d) == {None} \cup {Some(u.id) : u \in d.users} \cup {Some(GhostUserId)}

\* C14: the createdById of a package is the id of the user who sent the
\* creating POST /packages, whatever createdById the body carried, and no
\* PATCH /packages/:id by any caller with any createdById in its body changes
\* it; over every step, a package that stays keeps its createdById.
C14_OwnerIsCreatorForever ==
  /\ [](\A hdr \in LoginHeaders(db), owner \in OwnerFields(db) :
          /\ LET o == Handle(db, Request("POST /packages", hdr, 0,
                                         [GoodBody EXCEPT !.createdById = owner], NoFault))
             IN /\ o.code = 201
                /\ o.db.packages[db.nextPackageId].createdById = Caller(db, hdr).id
          /\ \A id \in DOMAIN db.packages, body \in UpdateBodies :
               LET o == Handle(db, Request("PATCH /packages/:id", hdr, id,
                                           [body EXCEPT !.createdById = owner], NoFault))
               IN \A p \in DOMAIN db.packages :
                    /\ p \in DOMAIN o.db.packages
                    /\ o.db.packages[p].createdById = db.packages[p].createdById)
  /\ [][\A p \in DOMAIN db.packages \cap DOMAIN db'.packages :
          db'.packages[p].createdById = db.packages[p].createdById]_vars

\* a PATCH that carried another user's id as createdById succeeded and the
\* package still belongs to its creator
C14_Witness ==
  /\ last.req.route = "PATCH /packages/:id"
  /\ last.req.body.createdById = Some("u2")
  /\ last.res.code = 200
  /\ db.packages[last.req.id].createdById = AdminId
  /\ db.packages[last.req.id].title = <<"T">>

-----------------------------------------------------------------------------
(* A guarded route served in two steps: canAccessPackage awaits its          *)
(* findUnique and calls next(); the handler runs later, against the          *)
(* database as it is then.                                                   *)

\* the handlers behind canAccessPackage
RunHandler(d, user, req) ==
  CASE req.route = "GET /packages/:id" -> GetPackageHandler(d, user, req.id)
    [] req.route = "PATCH /packages/:id" ->
         UpdatePackageHandler(d, user, req.id, req.body, req.fault)
    [] req.route = "PATCH /packages/:id/status" ->
         UpdateStatusHandler(d, user, req.id, req.body, req.fault)
    [] req.route = "DELETE /packages/:id" ->
         DeletePackageHandler(d, user, req.id, req.fault)

\* authenticateToken and canAccessPackage let the request through
Admit ==
  /\ pending = None
  /\ nreq < MaxRequests
  /\ \E id \in DOMAIN db.packages : \E req \in GuardedRequests(db, id) :
       LET a == authenticateToken(db, req.hdr) IN
       /\ a.next
       /\ canAccessPackage(db, a.user, req.id).next
       /\ pending' = Some([req |-> req, user |-> a.user])
  /\ nreq' = nreq + 1
  /\ UNCHANGED <<db, last, client, outside>>

\* the handler of the admitted request runs
RunPending ==
  /\ pending # None
  /\ LET o == RunHandler(db, pending[1].user, pending[1].req) IN
       /\ db' = o.db
       /\ last' = [req |-> pending[1].req, res |-> Response(o)]
  /\ pending' = None
  /\ UNCHANGED <<nreq, client, outside>>

NextClient ==
  \/ Register
  \/ Open
  \/ getCurrentUser
  \/ LocationLogin
  \/ RetryConnection
  \/ FollowNavigate
  \/ onSubmit

\* the query settles, a navigation under way is carried out, and a user
\* shown 'Retry Connection' keeps pressing it
ClientFairness ==
  /\ WF_vars(getCurrentUser)
  /\ WF_vars(LocationLogin)
  /\ WF_vars(FollowNavigate)
  /\ WF_vars(RetryConnection)

SpecClient == Init /\ [][NextClient]_vars /\ ClientFairness

NextSession ==
  \/ Register
  \/ Open
  \/ getCurrentUser
  \/ LocationLogin
  \/ RetryConnection
  \/ FollowNavigate
  \/ onSubmit
  \/ logout

SpecSession == Init /\ [][NextSession]_vars

NextSeed ==
  \/ SeedStarts
  \/ SeedStatement
  \/ SeedFails
  \/ CliSeed
  \/ CliSeedUsers

SpecSeed == Init /\ [][NextSeed]_vars

NextUpload ==
  \/ Open
  \/ getCurrentUser
  \/ FollowNavigate
  \/ onSubmit
  \/ uploadDocument
  \/ fetchPut
  \/ createDocument

SpecUpload == Init /\ [][NextUpload]_vars

NextRace ==
  \/ Admit
  \/ RunPending
  \/ DeletePackage

SpecRace == Init /\ [][NextRace]_vars

\* C16: when the package of an admitted request to GET, PATCH, PATCH status
\* or DELETE /packages/:id has been deleted before its handler runs, the
\* handler answers 404 and writes nothing.
C16_DeletedMeanwhileIs404 ==
  (pending # None /\ ~PackageExists(db, pending[1].req.id)) =>
    LET o == RunHandler(db, pending[1].user, pending[1].req)
    IN o.code = 404 /\ o.db = db

\* a status update that had passed canAccessPackage ran after the package
\* was deleted and was answered 500
C16_Witness ==
  /\ pending = None
  /\ last.req.route = "PATCH /packages/:id/status"
  /\ last.req.body.status \in PackageStatuses
  /\ last.req.fault = NoFault
  /\ last.res.ran
  /\ last.res.code = 500
  /\ ~PackageExists(db, last.req.id)

-----------------------------------------------------------------------------

\* C17: a PATCH /packages/:id that is answered with an error leaves the
\* package row and its site address as they were and creates no address row,
\* also when the body carries a siteAddress and the package update fails.
C17_FailedUpdateChangesNothing ==
  \A id \in DOMAIN db.packages : \A hdr \in AuthorisedHeaders(db, id) :
    \A body \in UpdateBodies, fault \in UpdateFaults :
      LET o == Handle(db, Request("PATCH /packages/:id", hdr, id, body, fault))
      IN o.code >= 400 =>
           /\ o.db.packages[id] = db.packages[id]
           /\ o.db.addresses = db.addresses

\* a PATCH with a siteAddress and a county that does not exist was answered
\* 500, and the seeded package's address row has been overwritten
C17_Witness ==
  /\ last.req.route = "PATCH /packages/:id"
  /\ last.req.id = SeedPackage.id
  /\ last.req.body.siteAddress = Some(Address("34 Pine Rd"))
  /\ last.req.body.countyId = NoCounty
  /\ last.req.fault = NoFault
  /\ last.res.code = 500
  /\ db.packages = SeedDb.packages
  /\ db.addresses = <<Address("34 Pine Rd")>>
  /\ SeedDb.addresses # db.addresses

\* the headers of signed-in administrators
AdminHeaders(d) == {hdr \in LoginHeaders(d) : Caller(d, hdr).role = "ADMIN"}

\* C18: POST /auth/register by an ADMIN with a valid body whose email (as the
\* validator normalises it) already belongs to a user is answered 409 'User
\* already exists' and creates no user; in every reachable state no two users
\* share an email.
C18_EmailsAreUnique ==
  /\ \A u, v \in db.users : u.email = v.email => u = v
  /\ \A hdr \in AdminHeaders(db), body \in RegisterBodies \cup AnyRegisterBodies :
       ( /\ registerValidation(body) = {}
         /\ \E u \in db.users : u.email = normalizeEmail(body.email) )
       => LET o == Handle(db, Request("POST /auth/register", hdr, 0, body, NoFault))
          IN o.code = 409 /\ o.error = "User already exists" /\ o.db = db

\* the address of the second user, written in another case, was registered
\* again and refused
C18_Witness ==
  /\ last.req.route = "POST /auth/register"
  /\ last.req.body.email = "E2@Example.com"
  /\ last.res.code = 409
  /\ Cardinality(db.users) = 2
  /\ \E u \in db.users : u.email = "e2@example.com"

\* emails and passwords a login may submit
LoginEmails ==
  {"admin@example.com", "E2@Example.com", "e2@example.com", "e3@example.com",
   "not-an-email"}
LoginPasswords == {"admin123", "admin124", "secret1", "short"}

LoginRequest(email, password) ==
  Request("POST /auth/login", <<>>, 0, Credentials(email, password), NoFault)

\* the users whose email (as normalised) and stored hash the credentials match
Matching(d, email, password) ==
  {u \in d.users : u.email = normalizeEmail(email) /\ u.passwordHash = Hash(password)}

\* C19: POST /auth/login issues a token only when the password matches the
\* stored hash of the user with the submitted email, and the token is that
\* user's; for the same password, an unknown email and a known email whose
\* password it is not get the same response, a 401 'Invalid email or
\* password' when the body is valid.
C19_LoginTellsNothingApart ==
  \A email \in LoginEmails, password \in LoginPasswords :
    LET o == Handle(db, LoginRequest(email, password))
        valid == email # "not-an-email" /\ password # "short"
    IN /\ o.db = db
       /\ o.code = 200 <=> (valid /\ Matching(db, email, password) # {})
       /\ o.data.kind = "login" <=> o.code = 200
       /\ o.code = 200 =>
            \E u \in Matching(db, email, password) :
              /\ o.data.token.userId = u.id
              /\ o.data.token.sig = "good" /\ ~o.data.token.expired
              /\ o.data.user.id = u.id
       /\ (valid /\ Matching(db, email, password) = {}) =>
            /\ o.code = 401
            /\ o.message = "Invalid email or password"
            /\ \A other \in LoginEmails \ {"not-an-email"} :
                 Matching(db, other, password) = {} =>
                   Response(Handle(db, LoginRequest(other, password))) = Response(o)

\* a login with the admin's email and a wrong password was answered 401
C19_Witness ==
  /\ last.req.route = "POST /auth/login"
  /\ last.req.body = Credentials("admin@example.com", "admin124")
  /\ last.res.code = 401
  /\ last.res.message = "Invalid email or password"
  /\ last.res.data = NoData

\* requests to the auth routes that answer with a user
UserRequests(d) ==
  {LoginRequest(email, password) : email \in LoginEmails, password \in LoginPasswords}
  \cup {Request("GET /auth/me", hdr, 0, NoData, NoFault) : hdr \in LoginHeaders(d)}
  \cup {Request("POST /auth/register", hdr, 0, body, NoFault) :
          hdr \in AdminHeaders(d), body \in RegisterBodies \cup AnyRegisterBodies}
  \cup {Request("POST /auth/change-password", hdr, 0, body, NoFault) :
          hdr \in LoginHeaders(d), body \in ChangePasswordBodies}
  \cup {Request("POST /auth/logout", hdr, 0, NoData, NoFault) : hdr \in LoginHeaders(d)}

\* C20: no response of the auth routes carries a passwordHash: the user that
\* login, /auth/me and register return has the fields id, email and role
\* only, and the other responses carry no user.
C20_NoPasswordHashInResponses ==
  \A req \in UserRequests(db) :
    LET o == Handle(db, req) IN
    /\ "passwordHash" \notin DOMAIN o.data
    /\ o.data.kind \in {"user", "login"} =>
         /\ "passwordHash" \notin DOMAIN o.data.user
         /\ DOMAIN o.data.user = {"id", "email", "role"}
    /\ (o.code = 200 /\ req.route \in {"POST /auth/login", "GET /auth/me"}) =>
         o.data.kind \in {"user", "login"}
    /\ "passwordHash" \notin DOMAIN o.user

\* the admin signed in and got back the user row without its hash
C20_Witness ==
  /\ last.req.route = "POST /auth/login"
  /\ last.res.code = 200
  /\ last.res.data.user =
       [id |-> AdminId, email |-> "admin@example.com", role |-> "ADMIN"]
  /\ \E u \in db.users : u.id = AdminId /\ "passwordHash" \in DOMAIN u

\* paths the routing table does not name
UnknownPaths == {<<"nowhere">>, <<"admin", "users">>, <<"login", "again">>}

\* the start-up check found the stored token good and the query holds its user
Authenticated(c) ==
  /\ c.data # None
  /\ c.token # None
  /\ LET a == authenticateToken(db, RequestInterceptor(c.token))
     IN a.next /\ a.user = c.data[1]

StartsWithInvalidToken(build) ==
  /\ client.build = build
  /\ client.status = "loading"
  /\ client.token # None
  /\ ~authenticateToken(db, RequestInterceptor(client.token)).next

LoginPageShown == client.build \in Builds /\ Rendered(client) = Element("LoginPage")

ReachesLogin(build) == StartsWithInvalidToken(build) ~> LoginPageShown

\* C15: a client that starts up holding an expired or otherwise invalid
\* auth_token eventually shows the login page, in either version of App.
C15_InvalidTokenLeadsToLogin ==
  /\ ReachesLogin("src/src/App.tsx")
  /\ ReachesLogin("src/unnamed/part_000")

\* 'Backend Server Unavailable' is shown after a 403, the rejected token
\* still in localStorage and no navigation under way
C15_Witness ==
  /\ client.build = "src/unnamed/part_000"
  /\ Rendered(client) = BackendUnavailable
  /\ client.token # None
  /\ ~JwtVerifies(client.token[1])
  /\ ~client.href

\* every pair of current and new password a caller may submit
AnyPasswords ==
  {Passwords(c, n) : c \in LoginPasswords, n \in LoginPasswords}

ChangePasswordRequest(hdr, body) ==
  Request("POST /auth/change-password", hdr, 0, body, NoFault)

\* the answer to a change of password by user u, whatever the body:
\* mismatch is 401 with the hash kept, match replaces u's hash and no other
ChangeOutcome(u, body, validated) ==
  LET o == Handle(db, ChangePasswordRequest(Bearer(generateToken(u.id)), body))
      changed == [u EXCEPT !.passwordHash = Hash(body.newPassword)]
  IN IF validated /\ changePasswordValidation(body) # {}
       THEN o.code = 400 /\ o.db = db
     ELSE IF u.passwordHash # Hash(body.currentPassword)
       THEN o.code = 401 /\ o.message = "Current password is incorrect" /\ o.db = db
     ELSE
       /\ o.code = 200
       /\ o.db = [db EXCEPT !.users = (@ \ {u}) \cup {changed}]
       /\ \A x \in db.users : x.id # u.id => x \in o.db.users
       /\ Handle(o.db, LoginRequest(u.email, body.newPassword)).code = 200
       /\ Handle(o.db, LoginRequest(u.email, body.newPassword)).data.user.id = u.id
       /\ body.currentPassword # body.newPassword =>
            Handle(o.db, LoginRequest(u.email, body.currentPassword)).code = 401

\* C21 (as amended): a change-password body with a currentPassword or a
\* newPassword shorter than 6 characters is answered 400 and changes
\* nothing; otherwise a currentPassword that does not match the caller's
\* stored hash is answered 401 and leaves the hash unchanged, and a matching
\* one replaces only the caller's own hash, after which login succeeds with
\* the new password and fails with the old one.
C21_ChangePasswordValidated ==
  \A u \in db.users, body \in AnyPasswords : ChangeOutcome(u, body, TRUE)

\* C21 (as stated): every currentPassword that does not match is answered
\* 401, and every matching one replaces the caller's hash.
C21_ChangePasswordAsStated ==
  \A u \in db.users, body \in AnyPasswords : ChangeOutcome(u, body, FALSE)

\* the admin changed the password while another user exists, whose hash stayed
C21_Witness ==
  /\ last.req.route = "POST /auth/change-password"
  /\ last.req.body = Passwords("admin123", "secret1")
  /\ last.res.code = 200
  /\ \E a \in db.users : a.id = AdminId /\ a.passwordHash = Hash("secret1")
  /\ \E x \in db.users : x.id # AdminId /\ x.passwordHash = Hash("secret1")

\* C22: once api.logout() has settled, resolved or rejected, localStorage
\* holds neither auth_token nor user and the request interceptor adds no
\* Authorization header.
C22_LogoutAlwaysClears ==
  (client.call # None /\ client.call[1].api = "logout") =>
    /\ client.token = None
    /\ client.user = None
    /\ RequestInterceptor(client.token) = <<>>

\* api.logout() was rejected by a network error and the token is still stored
C22_Witness ==
  /\ client.call = Settled("logout", NoResponse)
  /\ client.token # None
  /\ client.user # None
  /\ RequestInterceptor(client.token) = Bearer(client.token[1])

\* the statuses a response may carry, and none
Statuses == {NoResponse, 200, 201, 400, 401, 403, 404, 409, 500}

\* C23: the response interceptor, applied to a failure: on status 401 it
\* removes auth_token and user and sets window.location.href = '/login'; on
\* every other status, and on a network error, it leaves the client as it
\* was. In every step in which an api call settles with a failure the call
\* rejects and localStorage changes in exactly that way.
C23_OnlyA401ClearsTheSession ==
  /\ [](\A code \in Statuses \ (200..299) :
          LET c == ResponseInterceptor(client, code) IN
          IF code = 401
            THEN c = [client EXCEPT !.token = None, !.user = None, !.href = TRUE]
            ELSE c = client)
  /\ [][(client'.call # None /\ ~Resolved(client'.call)) =>
          /\ client'.call[1].status = 401 =>
               client'.token = None /\ client'.user = None /\ client'.href
          /\ client'.call[1].status # 401 =>
               /\ client'.token = client.token
               /\ client'.user = client.user
               /\ client'.href = client.href
          /\ client'.call[1].api = "login" =>
               client'.data = client.data /\ client'.path = client.path
          /\ client'.call[1].api = "getCurrentUser" =>
               client'.status = "error" /\ client'.data = None]_vars

\* a login was answered 400 with a token stored, which stayed
C23_Witness ==
  /\ client.call = Settled("login", 400)
  /\ client.token # None
  /\ client.user # None
  /\ ~client.href

\* the rows of a table with the given value in the given field
RowsWith(rows, field, value) == {i \in DOMAIN rows : rows[i][field] = value}

\* what one complete run of prisma/seed.js leaves, but for the subcontractor
SeededOnce(t) ==
  /\ Cardinality(RowsWith(t.users, "email", "admin@example.com")) = 1
  /\ Len(t.counties) = NumCounties
  /\ \A i, j \in DOMAIN t.counties : t.counties[i].name = t.counties[j].name => i = j
  /\ \A c \in DOMAIN t.counties :
       Cardinality(RowsWith(t.templates, "countyId", c)) = Len(DEFAULT_TEMPLATE_ITEMS)
  /\ Len(t.templates) = NumCounties * Len(DEFAULT_TEMPLATE_ITEMS)
  /\ Cardinality(RowsWith(t.customers, "email", SampleCustomer.email)) = 1
  /\ Cardinality(RowsWith(t.contractors, "companyName", SampleContractor.companyName)) = 1
  /\ Cardinality(RowsWith(t.packages, "title", SampleTitle)) = 1

\* some run of the seed script has reached its end and none is under way
Seeded == seeded.completed >= 1 /\ seeded.pc = 0

\* C25: the seed data names 67 distinct counties and 17 template items, and
\* after any number of runs of the seed script and of the CLI's seed and
\* seed-users the database holds what one run leaves: one admin user, every
\* county once with its 17 template items, one sample customer, contractor
\* and package, and one sample subcontractor.
C25_SeedingIsIdempotent ==
  /\ Cardinality({FLORIDA_COUNTIES[i] : i \in DOMAIN FLORIDA_COUNTIES}) = 67
  /\ Len(DEFAULT_TEMPLATE_ITEMS) = 17
  /\ Seeded =>
       /\ SeededOnce(seeded.tables)
       /\ Len(seeded.tables.subcontractors) = 1

\* two runs of the seed script have ended and there are two subcontractors
C25_Witness ==
  /\ seeded.completed = 2 /\ seeded.pc = 0
  /\ SeededOnce(seeded.tables)
  /\ Len(seeded.tables.subcontractors) = 2
  /\ seeded.tables.subcontractors[1] = seeded.tables.subcontractors[2]

\* C24: every Document record is of a file that the PUT stored: its
\* objectKey is in the storage.
C24_DocumentOnlyIfStored ==
  \A i \in DOMAIN db.documents : db.documents[i].objectKey \in storage

\* uploadDocument has returned having created the record of a file that the
\* storage refused
C24_Witness ==
  /\ client.call = Settled("uploadDocument", 201)
  /\ client.upload = None
  /\ \E i \in DOMAIN db.documents :
       /\ db.documents[i].packageId = 1
       /\ db.documents[i].objectKey \notin storage

====
